---- MODULE Spec2Model ----
(***************************************************************************)
(* Model of the paged storage layer of rusty-kv.                           *)
(*                                                                         *)
(* Part 1: the in-page sorted associative structure of                     *)
(* src/store/btree_kv/page.rs (BTreePage over one page buffer).            *)
(*                                                                         *)
(* A page is `header` (PAGE_HEADER_SIZE bytes) followed by `body`          *)
(* (PAGE_BODY_SIZE bytes), exactly as BTreePage::from splits the buffer.   *)
(* Bytes are naturals 0..255 and byte arrays are sequences: byte i of a     *)
(* Rust array (indexed from 0) is element i + 1 of the sequence, and every *)
(* offset below is the 0-based offset of the source.                       *)
(* A Rust panic (failed assert!, slice index out of range, integer         *)
(* underflow) aborts the program: the model records it in `panicked` and   *)
(* takes no further step.                                                  *)
(***************************************************************************)
EXTENDS Integers, Sequences, FiniteSets, TLC

(***************************************************************************)
(* Bounds of the model.  PAGE_SIZE is 8000 in commons.rs:1; the model uses *)
(* a page that two or three rows fill.  MaxOps bounds the number of calls  *)
(* made on a page in one run.  Page ids passed to the disk manager and the *)
(* buffer pool are 0..MaxPageId, and MaxDiskOps bounds the number of calls *)
(* made on the backing file in one run.                                    *)
(***************************************************************************)
PAGE_SIZE == 22
MaxOps == 6
MaxPageId == 2
MaxDiskOps == 4

\* frames of the buffer pool and calls made on it
PoolSlots == 2

\* frames of the earlier pager-backed pool (buffer_pool.rs:5)
SLOT_COUNT == 2

MaxPoolOps == 6

\* calls on a pool whose disk can fail, and restarts of a pool
MaxFaultOps == 4

MaxRestarts == 1

\* length of the byte sequences handed to cmp_le_bytes on its own
MaxKeyLen == 2

\* calls made on a FrameHandler on its own
MaxFrameOps == 5

(***************************************************************************)
(* Program constants (page.rs:9-22).                                       *)
(***************************************************************************)
SLOT_COUNT_SIZE == 2
SLOT_COUNT_OFFSET == 0
PAGE_HEADER_SIZE == SLOT_COUNT_SIZE
KEY_SIZE_SIZE == 2
VALUE_SIZE_SIZE == 2
ROW_HEADER_SIZE == KEY_SIZE_SIZE + VALUE_SIZE_SIZE
PAGE_BODY_SIZE == PAGE_SIZE - PAGE_HEADER_SIZE
SLOT_MAP_ELEMENT_SIZE == 2
KEY_SIZE_OFFSET == 0
VALUE_SIZE_OFFSET == KEY_SIZE_OFFSET + KEY_SIZE_SIZE

(***************************************************************************)
(* Inputs: keys and values are byte sequences.                             *)
(***************************************************************************)
Keys == {<<>>, <<1>>, <<2>>, <<1, 0>>}
Values == {<<>>, <<7>>, <<8>>}

(***************************************************************************)
(* u16::from_le_bytes / u16::to_le_bytes on two bytes of an array.         *)
(***************************************************************************)
u16_from_le_bytes(d, off) == d[off + 1] + 256 * d[off + 2]

u16_to_le_bytes(d, off, x) ==
    [d EXCEPT ![off + 1] = x % 256, ![off + 2] = (x \div 256) % 256]

\* d[off .. off + Len(s)).copy_from_slice(s), byte n of s being the next
RECURSIVE copy_bytes(_, _, _, _)
copy_bytes(d, off, s, n) ==
    IF n > Len(s) THEN d
    ELSE copy_bytes([d EXCEPT ![off + n] = s[n]], off, s, n + 1)

copy_from_slice(d, off, s) == copy_bytes(d, off, s, 1)

\* d[lo .. hi).fill(x)
RECURSIVE fill(_, _, _, _)
fill(d, lo, hi, x) ==
    IF lo >= hi THEN d ELSE fill([d EXCEPT ![lo + 1] = x], lo + 1, hi, x)

\* d[off .. off + n) as a sequence
slice(d, off, n) == [i \in 1..n |-> d[off + i]]

(***************************************************************************)
(* helpers/byte_ordering.rs: cmp_le_bytes.  Bytes are compared from the    *)
(* highest index down, a missing byte counting as 0.                       *)
(***************************************************************************)
Max(a, b) == IF a >= b THEN a ELSE b

\* the lexicographic order of two byte sequences, from index 0 up, a proper
\* prefix being less
RECURSIVE cmp_lexicographic_from(_, _, _)
cmp_lexicographic_from(a, b, i) ==
    IF i > Len(a) /\ i > Len(b) THEN "Equal"
    ELSE IF i > Len(a) THEN "Less"
    ELSE IF i > Len(b) THEN "Greater"
    ELSE IF a[i] # b[i] THEN (IF a[i] < b[i] THEN "Less" ELSE "Greater")
    ELSE cmp_lexicographic_from(a, b, i + 1)

cmp_lexicographic(a, b) == cmp_lexicographic_from(a, b, 1)

RECURSIVE cmp_le_bytes_from(_, _, _)
cmp_le_bytes_from(a, b, n) ==
    \* n = number of indices still to compare; the next index is n - 1
    IF n = 0 THEN "Equal"
    ELSE LET av == IF n <= Len(a) THEN a[n] ELSE 0
             bv == IF n <= Len(b) THEN b[n] ELSE 0
         IN  IF av # bv
             THEN (IF av < bv THEN "Less" ELSE "Greater")
             ELSE cmp_le_bytes_from(a, b, n - 1)

cmp_le_bytes(a, b) == cmp_le_bytes_from(a, b, Max(Len(a), Len(b)))

(***************************************************************************)
(* BTreePageHeader (page.rs:27-89).                                        *)
(***************************************************************************)
get_slot_count(h) == u16_from_le_bytes(h, SLOT_COUNT_OFFSET)

set_slot_count(h, count) == u16_to_le_bytes(h, SLOT_COUNT_OFFSET, count)

increase_slot_count(h, n) == set_slot_count(h, get_slot_count(h) + n)

decrease_slot_count(h, n) == set_slot_count(h, get_slot_count(h) - n)

(***************************************************************************)
(* BTreeRow (page.rs:139-302).  Each accessor has a companion `_ok` that   *)
(* is the conjunction of the assert!s and slice bounds the accessor        *)
(* evaluates; the accessor itself is only used where `_ok` holds.          *)
(***************************************************************************)
get_key_size_ok(off) == off + KEY_SIZE_OFFSET + KEY_SIZE_SIZE <= PAGE_BODY_SIZE
get_key_size(d, off) == u16_from_le_bytes(d, off + KEY_SIZE_OFFSET)

get_value_size_ok(off) ==
    off + VALUE_SIZE_OFFSET + VALUE_SIZE_SIZE <= PAGE_BODY_SIZE
get_value_size(d, off) == u16_from_le_bytes(d, off + VALUE_SIZE_OFFSET)

get_key_ok(d, off) ==
    /\ get_key_size_ok(off)
    /\ off + ROW_HEADER_SIZE + get_key_size(d, off) <= PAGE_BODY_SIZE
get_key(d, off) == slice(d, off + ROW_HEADER_SIZE, get_key_size(d, off))

get_value_ok(d, off) ==
    /\ get_key_size_ok(off)
    /\ get_value_size_ok(off)
    /\ off + ROW_HEADER_SIZE + get_key_size(d, off) + get_value_size(d, off)
          <= PAGE_BODY_SIZE
get_value(d, off) ==
    slice(d, off + ROW_HEADER_SIZE + get_key_size(d, off),
          get_value_size(d, off))

get_size_ok(off) == get_key_size_ok(off) /\ get_value_size_ok(off)
get_size(d, off) ==
    get_key_size(d, off) + get_value_size(d, off) + ROW_HEADER_SIZE

\* set_key: assert, set_key_size, copy of the key bytes
set_key_ok(off, key) ==
    /\ off + PAGE_HEADER_SIZE + Len(key) <= PAGE_BODY_SIZE
    /\ get_key_size_ok(off)
    /\ off + ROW_HEADER_SIZE + Len(key) <= PAGE_BODY_SIZE
set_key(d, off, key) ==
    copy_from_slice(u16_to_le_bytes(d, off + KEY_SIZE_OFFSET, Len(key)),
                    off + ROW_HEADER_SIZE, key)

\* set_value: reads the key size, assert, set_value_size, copy of the value
set_value_ok(d, off, value) ==
    /\ get_key_size_ok(off)
    /\ off + ROW_HEADER_SIZE + get_key_size(d, off) + Len(value)
          <= PAGE_BODY_SIZE
    /\ get_value_size_ok(off)
set_value(d, off, value) ==
    copy_from_slice(u16_to_le_bytes(d, off + VALUE_SIZE_OFFSET, Len(value)),
                    off + ROW_HEADER_SIZE + get_key_size(d, off), value)

\* clear_row: data[offset .. offset + get_size].fill(0)
clear_row_ok(d, off) ==
    get_size_ok(off) /\ off + get_size(d, off) <= PAGE_BODY_SIZE
clear_row(d, off) == fill(d, off, off + get_size(d, off), 0)

(***************************************************************************)
(* The views held by BTreeBodyData: free_space = [start, end] and          *)
(* slot_map = [start] (page.rs:353-355, 445-448).                          *)
(***************************************************************************)

\* BTreePageFreeSpace::allocate_row_space: the assert, then start += size
allocate_row_space_ok(fs, size) == fs.start + size <= fs.end
allocate_row_space(fs, size) == [fs EXCEPT !.start = fs.start + size]

\* BTreePageFreeSpace::allocate_slot_map_space: the assert, then end -= 2
allocate_slot_map_space_ok(fs) == fs.start + SLOT_MAP_ELEMENT_SIZE <= fs.end
allocate_slot_map_space(fs) ==
    [fs EXCEPT !.end = fs.end - SLOT_MAP_ELEMENT_SIZE]

deallocate_slot_map_space(fs) ==
    [fs EXCEPT !.end = fs.end + SLOT_MAP_ELEMENT_SIZE]

\* BTreePageFreeSpace::get_size is end - start on usize: with start > end
\* the subtraction underflows (a panic in a debug build; in a release
\* build the wrapped value passes the space check of insert and the
\* assert of allocate_row_space panics instead).
free_space_get_size_ok(fs) == fs.start <= fs.end
free_space_get_size(fs) == fs.end - fs.start

\* BTreePageSlotMap::get_slot_map_element, read as the u16 its callers make
get_slot_map_element_ok(sm, index) ==
    sm.start + (SLOT_MAP_ELEMENT_SIZE * index) + SLOT_MAP_ELEMENT_SIZE
        <= PAGE_BODY_SIZE
get_slot_map_element(sm, index, d) ==
    u16_from_le_bytes(d, sm.start + (SLOT_MAP_ELEMENT_SIZE * index))

\* for i in lo..hi { data[i] = data[i + 2] }
RECURSIVE shift_left(_, _, _)
shift_left(d, i, hi) ==
    IF i >= hi THEN d
    ELSE shift_left([d EXCEPT ![i + 1] = d[i + SLOT_MAP_ELEMENT_SIZE + 1]], i + 1, hi)

\* for i in (lo..hi).rev() { data[i + 2] = data[i] }, i being the next index
RECURSIVE shift_right(_, _, _)
shift_right(d, lo, i) ==
    IF i < lo THEN d
    ELSE shift_right([d EXCEPT ![i + SLOT_MAP_ELEMENT_SIZE + 1] = d[i + 1]], lo, i - 1)

(***************************************************************************)
(* BTreePageSlotMap::insert_slot_element (page.rs:379-398).                *)
(* Result: [ok, body, free_space, slot_map]; ok = FALSE is a panic.        *)
(***************************************************************************)
insert_slot_element(sm, fs, d, element, index) ==
    IF ~allocate_slot_map_space_ok(fs)
    THEN [ok |-> FALSE, body |-> d, free_space |-> fs, slot_map |-> sm]
    ELSE
    LET fs1 == allocate_slot_map_space(fs)
        start == fs1.end
        hi == start + (index * SLOT_MAP_ELEMENT_SIZE)
        start_offset == start + (SLOT_MAP_ELEMENT_SIZE * index)
    IN  IF \/ (hi > start /\ hi - 1 + SLOT_MAP_ELEMENT_SIZE >= PAGE_BODY_SIZE)
           \/ start_offset + SLOT_MAP_ELEMENT_SIZE > PAGE_BODY_SIZE
        THEN [ok |-> FALSE, body |-> d, free_space |-> fs, slot_map |-> sm]
        ELSE [ok |-> TRUE,
              body |-> u16_to_le_bytes(shift_left(d, start, hi),
                                       start_offset, element),
              free_space |-> fs1,
              slot_map |-> [start |-> start]]

(***************************************************************************)
(* BTreePageSlotMap::delete_slot_map_element (page.rs:422-439).            *)
(***************************************************************************)
delete_slot_map_element(sm, index, d, fs) ==
    LET new_start == sm.start + SLOT_MAP_ELEMENT_SIZE
        hi == sm.start + (index * SLOT_MAP_ELEMENT_SIZE)
    IN  IF hi > new_start /\ hi - 1 + SLOT_MAP_ELEMENT_SIZE >= PAGE_BODY_SIZE
        THEN [ok |-> FALSE, body |-> d, free_space |-> fs, slot_map |-> sm]
        ELSE [ok |-> TRUE,
              body |-> shift_right(d, new_start, hi - 1),
              free_space |-> deallocate_slot_map_space(fs),
              slot_map |-> [start |-> new_start]]

(***************************************************************************)
(* BTreeBodyData (page.rs:517-741).  A body view is                        *)
(* [body, free_space, slot_map]; operations on it return the view they     *)
(* leave with res in {"Ok", "InsufficientSpace", "Panic"}.  On "Panic" the *)
(* returned view is the one the operation was called on.                   *)
(***************************************************************************)
View(d, fs, sm) == [body |-> d, free_space |-> fs, slot_map |-> sm]

Outcome(res, d, fs, sm) ==
    [res |-> res, body |-> d, free_space |-> fs, slot_map |-> sm]

\* The row scan of BTreeBodyData::from: `count` rows from `index` on.
\* Result: the index after the last row, or -1 if a row accessor panics.
RECURSIVE scan_rows(_, _, _)
scan_rows(d, index, count) ==
    IF count = 0 THEN index
    ELSE IF ~get_size_ok(index) THEN -1
    ELSE scan_rows(d, index + get_size(d, index), count - 1)

\* BTreeBodyData::from (page.rs:543-567)
body_from_ok(h, d) ==
    /\ get_slot_count(h) * SLOT_MAP_ELEMENT_SIZE <= PAGE_BODY_SIZE
    /\ scan_rows(d, 0, get_slot_count(h)) >= 0
body_from(h, d) ==
    LET slot_map_start ==
            PAGE_BODY_SIZE - (get_slot_count(h) * SLOT_MAP_ELEMENT_SIZE)
        index == scan_rows(d, 0, get_slot_count(h))
    IN  View(d, [start |-> index, end |-> slot_map_start],
             [start |-> slot_map_start])

\* one probe of the pivot and no descent into either half
search_pivot_only(b, key, start, end) ==
    IF start = end THEN [tag |-> "Err", index |-> start]
    ELSE
    LET pivot_index == start + ((end - start) \div 2)
        row_offset == get_slot_map_element(b.slot_map, pivot_index, b.body)
    IN  IF \/ ~get_slot_map_element_ok(b.slot_map, pivot_index)
           \/ ~get_key_ok(b.body, row_offset)
        THEN [tag |-> "Panic", index |-> pivot_index]
        ELSE
        LET ord == cmp_le_bytes(key, get_key(b.body, row_offset))
        IN  CASE ord = "Equal" -> [tag |-> "Ok", index |-> pivot_index]
              [] ord = "Less" -> [tag |-> "Err", index |-> start]
              [] ord = "Greater" -> [tag |-> "Err", index |-> pivot_index + 1]

\* BTreeBodyData::search (page.rs:719-740): [tag, index], tag being "Ok"
\* (hit), "Err" (miss, index the insertion point) or "Panic".
RECURSIVE search(_, _, _, _)
search(b, key, start, end) ==
    IF start = end THEN [tag |-> "Err", index |-> start]
    ELSE
    LET pivot_index == start + ((end - start) \div 2)
    IN  IF ~get_slot_map_element_ok(b.slot_map, pivot_index)
        THEN [tag |-> "Panic", index |-> pivot_index]
        ELSE
        LET row_offset == get_slot_map_element(b.slot_map, pivot_index, b.body)
        IN  IF ~get_key_ok(b.body, row_offset)
            THEN [tag |-> "Panic", index |-> pivot_index]
            ELSE
            LET ord == cmp_le_bytes(key, get_key(b.body, row_offset))
            IN  CASE ord = "Equal" -> [tag |-> "Ok", index |-> pivot_index]
                  [] ord = "Less" -> search(b, key, start, pivot_index)
                  [] ord = "Greater" -> search(b, key, pivot_index + 1, end)

\* BTreeBodyData::get (page.rs:577-592): [tag, row], tag being "Ok",
\* "ItemNotFound" or "Panic"; row is the byte range of the row.
body_get(b, key, h) ==
    LET found == search(b, key, 0, get_slot_count(h))
    IN  CASE found.tag = "Panic" -> [tag |-> "Panic", row |-> <<>>]
          [] found.tag = "Err" -> [tag |-> "ItemNotFound", row |-> <<>>]
          [] found.tag = "Ok" ->
                LET row_offset ==
                        get_slot_map_element(b.slot_map, found.index, b.body)
                IN  IF \/ ~get_slot_map_element_ok(b.slot_map, found.index)
                       \/ ~get_size_ok(row_offset)
                       \/ row_offset + get_size(b.body, row_offset)
                              > PAGE_BODY_SIZE
                    THEN [tag |-> "Panic", row |-> <<>>]
                    ELSE [tag |-> "Ok",
                          row |-> slice(b.body, row_offset,
                                        get_size(b.body, row_offset))]

\* update without the comparison of the value lengths
update_any_length(b, value, slot_map_index) ==
    IF ~get_slot_map_element_ok(b.slot_map, slot_map_index)
    THEN Outcome("Panic", b.body, b.free_space, b.slot_map)
    ELSE
    LET row_offset == get_slot_map_element(b.slot_map, slot_map_index, b.body)
    IN  IF ~set_value_ok(b.body, row_offset, value)
        THEN Outcome("Panic", b.body, b.free_space, b.slot_map)
        ELSE Outcome("Ok", set_value(b.body, row_offset, value),
                     b.free_space, b.slot_map)

\* BTreeBodyData::update (page.rs:609-633)
update(b, value, slot_map_index) ==
    IF ~get_slot_map_element_ok(b.slot_map, slot_map_index)
    THEN Outcome("Panic", b.body, b.free_space, b.slot_map)
    ELSE
    LET row_offset == get_slot_map_element(b.slot_map, slot_map_index, b.body)
    IN  IF ~get_value_size_ok(row_offset)
        THEN Outcome("Panic", b.body, b.free_space, b.slot_map)
        ELSE IF get_value_size(b.body, row_offset) # Len(value)
        THEN Outcome("InsufficientSpace", b.body, b.free_space, b.slot_map)
        ELSE IF ~set_value_ok(b.body, row_offset, value)
        THEN Outcome("Panic", b.body, b.free_space, b.slot_map)
        ELSE Outcome("Ok", set_value(b.body, row_offset, value),
                     b.free_space, b.slot_map)

\* BTreeBodyData::insert (page.rs:645-676)
insert(b, key, value, slot_map_index) ==
    LET slot_size == ROW_HEADER_SIZE + Len(key) + Len(value)
        panic == Outcome("Panic", b.body, b.free_space, b.slot_map)
    IN  IF ~free_space_get_size_ok(b.free_space) THEN panic
        ELSE IF slot_size + SLOT_MAP_ELEMENT_SIZE
                    > free_space_get_size(b.free_space)
        THEN Outcome("InsufficientSpace", b.body, b.free_space, b.slot_map)
        ELSE IF ~allocate_row_space_ok(b.free_space, slot_size) THEN panic
        ELSE
        LET new_row_start == b.free_space.start
            fs1 == allocate_row_space(b.free_space, slot_size)
        IN  IF ~set_key_ok(new_row_start, key) THEN panic
            ELSE
            LET d1 == set_key(b.body, new_row_start, key)
            IN  IF ~set_value_ok(d1, new_row_start, value) THEN panic
                ELSE
                LET d2 == set_value(d1, new_row_start, value)
                    r == insert_slot_element(b.slot_map, fs1, d2,
                                             new_row_start % 65536,
                                             slot_map_index)
                IN  IF ~r.ok THEN panic
                    ELSE Outcome("Ok", r.body, r.free_space, r.slot_map)

\* BTreeBodyData::remove (page.rs:687-712), the header update excluded
remove(b, slot_map_index) ==
    LET panic == Outcome("Panic", b.body, b.free_space, b.slot_map)
    IN  IF ~get_slot_map_element_ok(b.slot_map, slot_map_index) THEN panic
        ELSE
        LET row_offset ==
                get_slot_map_element(b.slot_map, slot_map_index, b.body)
        IN  IF ~clear_row_ok(b.body, row_offset) THEN panic
            ELSE
            LET r == delete_slot_map_element(b.slot_map, slot_map_index,
                                             clear_row(b.body, row_offset),
                                             b.free_space)
            IN  IF ~r.ok THEN panic
                ELSE Outcome("Ok", r.body, r.free_space, r.slot_map)

(***************************************************************************)
(* BTreePage (page.rs:794-865).  Page operations return                    *)
(* [res, header, body, free_space, slot_map].                              *)
(***************************************************************************)
PageOutcome(h, o) ==
    [res |-> o.res, header |-> h, body |-> o.body,
     free_space |-> o.free_space, slot_map |-> o.slot_map]

\* BTreePage::get followed by RowResult::get_value (page.rs:814-819,
\* 785-788): [tag, key, value] with tag "Some", "None" or "Panic".
page_get(h, b, key) ==
    LET r == body_get(b, key, h)
        \* RowResult reads the row from offset 0 of its own byte range
        row == r.row
        ks == u16_from_le_bytes(row, KEY_SIZE_OFFSET)
        vs == u16_from_le_bytes(row, VALUE_SIZE_OFFSET)
    IN  CASE r.tag = "Panic" -> [tag |-> "Panic", key |-> <<>>, value |-> <<>>]
          [] r.tag = "ItemNotFound" ->
                [tag |-> "None", key |-> <<>>, value |-> <<>>]
          [] r.tag = "Ok" ->
                [tag |-> "Some",
                 key |-> slice(row, ROW_HEADER_SIZE, ks),
                 value |-> slice(row, ROW_HEADER_SIZE + ks, vs)]

\* BTreePage::save (page.rs:830-846)
page_save(h, b, key, value) ==
    LET found == search(b, key, 0, get_slot_count(h))
    IN  CASE found.tag = "Panic" ->
                PageOutcome(h, Outcome("Panic", b.body, b.free_space,
                                       b.slot_map))
          [] found.tag = "Ok" -> PageOutcome(h, update(b, value, found.index))
          [] found.tag = "Err" ->
                LET result == insert(b, key, value, found.index)
                IN  IF result.res = "Panic" THEN PageOutcome(h, result)
                    ELSE PageOutcome(increase_slot_count(h, 1), result)

\* BTreePage::delete without the `if result.is_ok()` guard: on a miss the
\* entry at the insertion point is removed
page_delete_unguarded(h, b, key) ==
    LET result == search(b, key, 0, get_slot_count(h))
    IN  CASE result.tag = "Panic" ->
                PageOutcome(h, Outcome("Panic", b.body, b.free_space,
                                       b.slot_map))
          [] result.tag \in {"Ok", "Err"} ->
                IF result.index >= get_slot_count(h)
                THEN PageOutcome(h, Outcome("Ok", b.body, b.free_space,
                                            b.slot_map))
                ELSE
                LET r == remove(b, result.index)
                IN  IF r.res = "Panic" THEN PageOutcome(h, r)
                    ELSE PageOutcome(decrease_slot_count(h, 1), r)

\* BTreePage::delete (page.rs:856-864)
page_delete(h, b, key) ==
    LET result == search(b, key, 0, get_slot_count(h))
    IN  CASE result.tag = "Panic" ->
                PageOutcome(h, Outcome("Panic", b.body, b.free_space,
                                       b.slot_map))
          [] result.tag = "Ok" ->
                LET r == remove(b, result.index)
                IN  IF r.res = "Panic" THEN PageOutcome(h, r)
                    ELSE PageOutcome(decrease_slot_count(h, 1), r)
          [] result.tag = "Err" ->
                PageOutcome(h, Outcome("Ok", b.body, b.free_space, b.slot_map))

(***************************************************************************)
(* State.  header, body: the bytes of the page buffer.  free_space,        *)
(* slot_map: the fields of the BTreeBodyData view currently held over      *)
(* them.  panicked: an operation has panicked.  last: the latest call,     *)
(* what it returned and what get(key) returned just before it; ops: the    *)
(* number of calls made (history for the properties below).                *)
(***************************************************************************)
VARIABLES header, body, free_space, slot_map, panicked, last, ops

page_vars == <<header, body, free_space, slot_map, panicked, last, ops>>

\* The reference store run beside the page (Part 2): the HashMap of
\* MapRustyKV, a map from every key to Absent or to its value.
VARIABLES data_store

ref_vars == <<data_store>>

\* The backing file and the DiskManager open on it (Part 3).  file: the
\* bytes of the file.  num_pages: the field of the DiskManager.  written:
\* for every page id, the buffer of the latest write_page to it, or NoPage.
\* written_before_open: the page ids written before the DiskManager was
\* opened.  issued: the PageIds allocate_page has returned on this file.
\* disk_last: the latest call on the DiskManager; disk_ops: their number.
VARIABLES file, num_pages, written, written_before_open, issued, disk_last,
          disk_ops

disk_vars == <<file, num_pages, written, written_before_open, issued,
               disk_last, disk_ops>>

\* BufferPoolManager (buffer_pool_manager.rs:10-25): the frames, their
\* metadata, the page-to-slot lookup, the LRUCacheManager and the vacant
\* slots; the disk manager it owns is the file above.  handler is the slot of
\* the FrameHandler the caller holds, the rest is history; modified holds
\* the pages on which set_data was called since they were last loaded.
VARIABLES buffer_pool, buffer_pool_metadata, buffer_pool_lookup,
          cache_manager, vacant_slots, handler, recency, set_to, pool_last,
          pool_ops, restart, modified

pool_vars == <<buffer_pool, buffer_pool_metadata, buffer_pool_lookup,
               cache_manager, vacant_slots, handler, recency, set_to,
               pool_last, pool_ops, restart, modified>>

\* LRUCachePolicyEngine (cache_policy_engine.rs:11-14) on its own;
\* touch_time is history: the call at which each item was last touched, 0
\* for an item the engine does not track.
VARIABLES engine, touch_time, engine_last, engine_ops

engine_vars == <<engine, touch_time, engine_last, engine_ops>>

\* LRUCacheManager (cache_manager.rs:11-14) on its own
VARIABLES lru_cache, lru_last, lru_ops

lru_vars == <<lru_cache, lru_last, lru_ops>>

cache_vars == <<engine_vars, lru_vars>>

\* the earlier BufferPoolManager over a pager (buffer_pool.rs:36-63);
\* legacy_recency is history: the pages in the order of their latest
\* get_page, oldest first
VARIABLES frames, frame_metadata, lookup, vacant_frames, lru_frames, pager,
          legacy_recency, legacy_last, legacy_ops

legacy_vars == <<frames, frame_metadata, lookup, vacant_frames, lru_frames,
                 pager, legacy_recency, legacy_last, legacy_ops>>

\* cmp_le_bytes (helpers/byte_ordering.rs) called on its own: the byte
\* sequences handed to it and what the calls returned
VARIABLES cmp_in, cmp_out

order_vars == <<cmp_in, cmp_out>>

\* A Frame and its FrameMetadata under a FrameHandler (frame.rs:11-44) on
\* their own.  arcs: the buffers allocated behind an Arc, by address (the
\* index in the sequence); frame_handler: the frame, whose data is the
\* address of its buffer, and the metadata; snapshots: the clones of
\* frame.data taken so far, each with the bytes read through it when it
\* was taken; frame_last: the latest call; frame_ops: their number.
VARIABLES arcs, frame_handler, snapshots, frame_last, frame_ops

frame_vars == <<arcs, frame_handler, snapshots, frame_last, frame_ops>>

\* the variables of the functions that are run on their own
unit_vars == <<order_vars, frame_vars>>

storage_vars == <<disk_vars, pool_vars, cache_vars, legacy_vars, unit_vars>>

vars == <<page_vars, ref_vars, storage_vars>>

CurView == View(body, free_space, slot_map)

Call(op, key, value, res, before) ==
    [op |-> op, key |-> key, value |-> value, res |-> res, before |-> before]

NoRow == [tag |-> "None", key |-> <<>>, value |-> <<>>]

\* `let mut data = [0; PAGE_SIZE]; BTreePage::from(&mut data)`
PageInit ==
    /\ header = [i \in 1..PAGE_HEADER_SIZE |-> 0]
    /\ body = [i \in 1..PAGE_BODY_SIZE |-> 0]
    /\ free_space = [start |-> 0, end |-> PAGE_BODY_SIZE]
    /\ slot_map = [start |-> PAGE_BODY_SIZE]
    /\ panicked = FALSE
    /\ last = Call("new", <<>>, <<>>, "Ok", NoRow)
    /\ ops = 0

\* Option<&T> of the reference store
Absent == [tag |-> "None", value |-> <<>>]
Present(value) == [tag |-> "Some", value |-> value]

\* MapRustyKV::new()
RefInit == data_store = [k \in Keys |-> Absent]

PageIds == 0..MaxPageId

NoPage == <<>>

DiskCall(op, id, buffer, out) ==
    [op |-> op, id |-> id, buffer |-> buffer, out |-> out]

\* The backing file does not exist yet: DiskManager::new creates it empty
\* (disk_manager.rs:30-34), which leaves num_pages = 0.
DiskIdle ==
    /\ file = <<>>
    /\ num_pages = 0
    /\ written = [p \in PageIds |-> NoPage]
    /\ written_before_open = {}
    /\ issued = {}
    /\ disk_last = DiskCall("new", 0, NoPage, NoPage)
    /\ disk_ops = 0

\* Option<PageId> and Option<usize>
None == <<>>

Some(x) == <<x>>

FrameMetadataDefault == [page_id |-> None, is_dirty |-> FALSE]

PoolCall(op, page_id, hit, slot, evicted, was_dirty, reads, writes, data) ==
    [op |-> op, page_id |-> page_id, hit |-> hit, slot |-> slot,
     evicted |-> evicted, was_dirty |-> was_dirty, reads |-> reads,
     writes |-> writes, data |-> data, res |-> "Ok", io |-> "ok"]

\* no buffer pool has been constructed
PoolIdle ==
    /\ buffer_pool = <<>>
    /\ buffer_pool_metadata = <<>>
    /\ buffer_pool_lookup = [p \in PageIds |-> None]
    /\ cache_manager = [cache |-> <<>>, max_capacity |-> 0]
    /\ vacant_slots = <<>>
    /\ handler = None
    /\ recency = <<>>
    /\ set_to = [p \in PageIds |-> NoPage]
    /\ pool_last = PoolCall("new", None, FALSE, None, None, FALSE, 0, 0,
                            NoPage)
    /\ pool_ops = 0
    /\ restart = [opened_on |-> <<>>, count |-> 0,
                  durable |-> [p \in PageIds |-> NoPage],
                  dropped |-> [p \in PageIds |-> NoPage]]
    /\ modified = {}

\* the items handed to a cache on its own: slot numbers, one more than a
\* pool of PoolSlots frames has
CacheItems == 0..PoolSlots

CacheCall(op, item, out, before) ==
    [op |-> op, item |-> item, out |-> out, before |-> before, res |-> "Ok"]

\* LRUCachePolicyEngine::new(PoolSlots), nothing touched yet
EngineInit ==
    /\ engine = [cache |-> <<>>, max_capacity |-> PoolSlots]
    /\ touch_time = [i \in CacheItems |-> 0]
    /\ engine_last = CacheCall("new", None, None, <<>>)
    /\ engine_ops = 0

\* LRUCacheManager::new(PoolSlots), nothing added yet
LruInit ==
    /\ lru_cache = [cache |-> <<>>, max_capacity |-> PoolSlots]
    /\ lru_last = CacheCall("new", None, None, <<>>)
    /\ lru_ops = 0

CacheIdle == EngineInit /\ LruInit

BUFFER_POOL_SIZE == SLOT_COUNT * PAGE_SIZE

LegacyCall(op, page_id, hit, evicted, reads, writes, hits) ==
    [op |-> op, page_id |-> page_id, hit |-> hit, evicted |-> evicted,
     reads |-> reads, writes |-> writes, hits |-> hits, res |-> "Ok"]

\* BufferPoolManager::new(pager) over a pager that holds the given pages
legacy_new(pages) ==
    [frames |-> [i \in 1..BUFFER_POOL_SIZE |-> 0],
     frame_metadata |-> [i \in 1..SLOT_COUNT |-> FrameMetadataDefault],
     lookup |-> [p \in PageIds |-> None],
     vacant_frames |-> [i \in 1..SLOT_COUNT |-> i - 1],
     lru_frames |-> <<>>,
     pager |-> pages]

LegacyStart(pages) ==
    /\ frames = legacy_new(pages).frames
    /\ frame_metadata = legacy_new(pages).frame_metadata
    /\ lookup = legacy_new(pages).lookup
    /\ vacant_frames = legacy_new(pages).vacant_frames
    /\ lru_frames = legacy_new(pages).lru_frames
    /\ pager = legacy_new(pages).pager
    /\ legacy_recency = <<>>
    /\ legacy_last = LegacyCall("new", None, FALSE, None, 0, 0, 0)
    /\ legacy_ops = 0

\* Pager::new(): no page
LegacyIdle == LegacyStart([p \in PageIds |-> NoPage])

\* cmp_le_bytes has not been called
OrderIdle ==
    /\ cmp_in = [a |-> <<>>, b |-> <<>>, c |-> <<>>]
    /\ cmp_out = None

\* Frame::default() and FrameMetadata::default() under FrameHandler::new
\* (frame.rs:16-21, 30-35, 50-55): one buffer of zeros behind an Arc
FrameStart ==
    /\ arcs = <<[i \in 1..PAGE_SIZE |-> 0]>>
    /\ frame_handler = [frame |-> [data |-> 1],
                        frame_metadata |-> FrameMetadataDefault]
    /\ snapshots = {}
    /\ frame_last = [op |-> "new", data |-> <<>>]
    /\ frame_ops = 0

UnitIdle == OrderIdle /\ FrameStart

Init == PageInit /\ RefInit /\ UnitIdle /\ DiskIdle /\ PoolIdle /\ CacheIdle /\ LegacyIdle


Apply(o) ==
    IF o.res = "Panic"
    THEN /\ panicked' = TRUE
         /\ UNCHANGED <<header, body, free_space, slot_map>>
    ELSE /\ header' = o.header
         /\ body' = o.body
         /\ free_space' = o.free_space
         /\ slot_map' = o.slot_map
         /\ UNCHANGED panicked

\* page.save(key, value)
Save(key, value) ==
    /\ ~panicked
    /\ \E o \in {page_save(header, CurView, key, value)} :
           /\ Apply(o)
           /\ last' = Call("save", key, value, o.res,
                        page_get(header, CurView, key))

\* page.delete(key)
Delete(key) ==
    /\ ~panicked
    /\ \E o \in {page_delete(header, CurView, key)} :
           /\ Apply(o)
           /\ last' = Call("delete", key, <<>>, o.res,
                        page_get(header, CurView, key))

\* page.get(key): a read.  It changes nothing unless it panics; what it
\* returns in a state is page_get(header, CurView, key).
Get(key) ==
    /\ ~panicked
    /\ panicked' = (page_get(header, CurView, key).tag = "Panic")
    /\ UNCHANGED <<header, body, free_space, slot_map, last, ops>>

\* BTreePage::from(&mut data) over the bytes the previous view left
\* (page.rs:800-805)
Reopen ==
    /\ ~panicked
    /\ IF body_from_ok(header, body)
       THEN /\ free_space' = body_from(header, body).free_space
            /\ slot_map' = body_from(header, body).slot_map
            /\ UNCHANGED panicked
            /\ last' = Call("from", <<>>, <<>>, "Ok", NoRow)
       ELSE /\ panicked' = TRUE
            /\ UNCHANGED <<free_space, slot_map>>
            /\ last' = Call("from", <<>>, <<>>, "Panic", NoRow)
    /\ UNCHANGED <<header, body>>

\* The calls of one run that can change the page are counted, and a run
\* makes at most MaxOps of them, with reads in between.
Count == ops' = ops + 1

Next ==
    \/ ops < MaxOps /\ \E key \in Keys, value \in Values :
                           Save(key, value) /\ Count /\ UNCHANGED <<ref_vars, storage_vars>>
    \/ ops < MaxOps /\ \E key \in Keys :
                           Delete(key) /\ Count /\ UNCHANGED <<ref_vars, storage_vars>>
    \/ ops < MaxOps /\ Reopen /\ Count /\ UNCHANGED <<ref_vars, storage_vars>>
    \/ ops < MaxOps /\ \E key \in Keys : Get(key) /\ UNCHANGED <<ref_vars, storage_vars>>

Spec == Init /\ [][Next]_vars

\* Runs that only save and read: one view, no delete, no re-construction.
NextSave ==
    \/ ops < MaxOps /\ \E key \in Keys, value \in Values :
                           Save(key, value) /\ Count /\ UNCHANGED <<ref_vars, storage_vars>>
    \/ ops < MaxOps /\ \E key \in Keys : Get(key) /\ UNCHANGED <<ref_vars, storage_vars>>

SaveSpec == Init /\ [][NextSave]_vars

(***************************************************************************)
(* Vocabulary of the properties.                                           *)
(***************************************************************************)
SlotCount == get_slot_count(header)

\* what page.get(k) returns in the current state
GetNow(k) == page_get(header, CurView, k)

\* what page.get(k) returns in the state a step leads to
GetNext(k) == page_get(header', View(body', free_space', slot_map'), k)

\* what get(k) returns through a page view constructed afresh over the bytes
GetFresh(k) ==
    IF body_from_ok(header, body)
    THEN page_get(header, body_from(header, body), k)
    ELSE [tag |-> "Panic", key |-> <<>>, value |-> <<>>]

\* the row of (k, v) and its slot-map entry fit in the free space
Fits(k, v) ==
    /\ free_space.start <= free_space.end
    /\ ROW_HEADER_SIZE + Len(k) + Len(v) + SLOT_MAP_ELEMENT_SIZE
          <= free_space.end - free_space.start

\* the step is the call `op`
Called(op) == ops' = ops + 1 /\ last'.op = op

\* what get(k) would return through a fresh view over the bytes a step leaves
GetFreshNext(k) ==
    IF body_from_ok(header', body')
    THEN page_get(header', body_from(header', body'), k)
    ELSE [tag |-> "Panic", key |-> <<>>, value |-> <<>>]

\* the call being made is a save that update would refuse for its length
\* (page.rs:626): get(key) returns a row whose value has another length
OtherLength(call) ==
    call.before.tag = "Some" /\ Len(call.before.value) # Len(call.value)

(***************************************************************************)
(* C1.  Page round-trip: on a page holding any set of previously saved     *)
(* keys, if the row of (k, v) and one slot-map entry fit in the free       *)
(* space, save(k, v) returns Ok and get(k) then returns a row whose value  *)
(* is v.  Stated for the saves that are not an update with a value of      *)
(* another length, which update refuses by design.                         *)
(***************************************************************************)
C1_RoundTrip ==
    [][(Called("save") /\ Fits(last'.key, last'.value) /\ ~OtherLength(last'))
          => (/\ last'.res = "Ok"
              /\ GetNext(last'.key).tag = "Some"
              /\ GetNext(last'.key).value = last'.value)]_vars

(***************************************************************************)
(* C2.  Upsert: save(k, v1) then save(k, v2) then get(k) returns v2, and   *)
(* the slot count is the same after the second save as after the first.    *)
(* Stated for v1 and v2 of the same length.                                *)
(***************************************************************************)
C2_Upsert ==
    [][(/\ last.op = "save" /\ last.res = "Ok"
        /\ Called("save") /\ last'.key = last.key
        /\ Len(last'.value) = Len(last.value))
          => (/\ last'.res = "Ok"
              /\ GetNext(last'.key).tag = "Some"
              /\ GetNext(last'.key).value = last'.value
              /\ get_slot_count(header') = get_slot_count(header))]_vars

(***************************************************************************)
(* C3.  Delete correctness: save(k, v) then delete(k) returns Ok, a        *)
(* following get(k) returns absent, and the slot count is one less than    *)
(* before the delete.                                                      *)
(***************************************************************************)
C3_DeleteCorrectness ==
    [][(/\ last.op = "save" /\ last.res = "Ok"
        /\ Called("delete") /\ last'.key = last.key)
          => (/\ last'.res = "Ok"
              /\ GetNext(last'.key).tag = "None"
              /\ get_slot_count(header') = get_slot_count(header) - 1)]_vars

(***************************************************************************)
(* C4.  Delete removes only its target: after delete(k), every other       *)
(* stored key k2 is still returned by get(k2) with its value unchanged.    *)
(* "Other" is taken under the page's own comparison, and "stored" as       *)
(* get(k2) returning the row whose key is k2.                              *)
(***************************************************************************)
C4_DeleteOnlyTarget ==
    [][Called("delete")
          => \A k2 \in Keys :
                (/\ cmp_le_bytes(k2, last'.key) # "Equal"
                 /\ GetNow(k2).tag = "Some"
                 /\ GetNow(k2).key = k2)
                   => GetNext(k2) = GetNow(k2)]_vars

C6_SpaceExhaustion ==
    [][(/\ Called("save") /\ last'.res = "InsufficientSpace"
        /\ last'.before.tag = "None")
          => \A k \in Keys :
                GetNow(k).tag = "Some"
                   => (GetNext(k) = GetNow(k) /\ GetFreshNext(k) = GetNow(k))]_vars

(***************************************************************************)
(* C7.  A rejected save mutates nothing: whenever save returns an error,   *)
(* the bytes of the page are what they were before the call.               *)
(***************************************************************************)
C7_RejectedSaveMutatesNothing ==
    [][(Called("save") /\ last'.res = "InsufficientSpace")
          => (header' = header /\ body' = body)]_vars

\* the entries of the slot map of the current view
SlotEntries == (PAGE_BODY_SIZE - slot_map.start) \div SLOT_MAP_ELEMENT_SIZE
SlotRow(i) == get_slot_map_element(slot_map, i, body)

(***************************************************************************)
(* C8.  Slot-map invariant: after any sequence of save and delete calls    *)
(* that returned (Ok or rejected), the slot map holds exactly slot_count   *)
(* entries, each entry is the offset of a row inside the allocated row     *)
(* area, and the keys of the rows are strictly ascending under             *)
(* cmp_le_bytes.                                                           *)
(***************************************************************************)
C8_SlotMapInvariant ==
    ~panicked =>
        /\ SlotEntries = SlotCount
        /\ \A i \in 0..(SlotEntries - 1) :
              /\ get_value_ok(body, SlotRow(i))
              /\ SlotRow(i) + get_size(body, SlotRow(i)) <= free_space.start
        /\ \A i \in 0..(SlotEntries - 2) :
              cmp_le_bytes(get_key(body, SlotRow(i)),
                           get_key(body, SlotRow(i + 1))) = "Less"

(***************************************************************************)
(* C9.  Free-space invariant: in every state reached by save and delete    *)
(* calls, with the view re-constructed over the bytes between calls or     *)
(* not, free-space start <= free-space end and slot_count * 2 <= body      *)
(* size.                                                                   *)
(***************************************************************************)
C9_FreeSpaceInvariant ==
    ~panicked =>
        /\ free_space.start <= free_space.end
        /\ SlotCount * SLOT_MAP_ELEMENT_SIZE <= PAGE_BODY_SIZE

(***************************************************************************)
(* C10.  Re-opening reconstructs the state: a view constructed over the    *)
(* bytes left by any sequence of save and delete calls has the free-space  *)
(* start and end and the slot-map start of the view that produced the      *)
(* bytes, and get returns the same result for every key.                   *)
(***************************************************************************)
C10_ReopenSameView ==
    ~panicked =>
        /\ body_from_ok(header, body)
        /\ body_from(header, body) = CurView
        /\ \A k \in Keys : GetFresh(k) = GetNow(k)

\* the slot map holds slot_count entries, each the offset of a row of the
\* body, and the keys of the rows are strictly ascending under cmp_le_bytes
SortedSlotMap ==
    /\ SlotEntries = SlotCount
    /\ \A i \in 0..(SlotEntries - 1) : get_value_ok(body, SlotRow(i))
    /\ \A i \in 0..(SlotEntries - 2) :
          cmp_le_bytes(get_key(body, SlotRow(i)),
                       get_key(body, SlotRow(i + 1))) = "Less"

\* the key of the row of entry i
KeyAt(i) == get_key(body, SlotRow(i))

SearchNow(key) == search(CurView, key, 0, SlotCount)

(***************************************************************************)
(* C33.  Binary search is correct on a sorted slot map: when the keys of   *)
(* the slot map are strictly ascending under cmp_le_bytes,                 *)
(* search(key, 0, slot_count) returns Ok(i) exactly when the row of entry  *)
(* i has a key comparing Equal to key, and otherwise Err(i) with every key *)
(* below i less than key and every key at i or above greater.              *)
(***************************************************************************)
C33_SearchCorrect ==
    (~panicked /\ SortedSlotMap) =>
        \A key \in Keys :
            /\ SearchNow(key).tag \in {"Ok", "Err"}
            /\ SearchNow(key).index \in 0..SlotCount
            /\ \A i \in 0..(SlotCount - 1) :
                  (SearchNow(key) = [tag |-> "Ok", index |-> i])
                     <=> cmp_le_bytes(key, KeyAt(i)) = "Equal"
            /\ SearchNow(key).tag = "Ok" => SearchNow(key).index < SlotCount
            /\ SearchNow(key).tag = "Err" =>
                  \A j \in 0..(SlotCount - 1) :
                      cmp_le_bytes(KeyAt(j), key) =
                          IF j < SearchNow(key).index THEN "Less" ELSE "Greater"

\* a sorted slot map of several entries on which one search descends into
\* the lower half and hits, and another misses between two entries
C33_Witness ==
    /\ ~panicked /\ SortedSlotMap /\ SlotCount >= 2
    /\ \E key \in Keys :
          /\ SearchNow(key).tag = "Ok"
          /\ SearchNow(key).index < SlotCount \div 2
    /\ \E key \in Keys :
          /\ SearchNow(key).tag = "Err"
          /\ SearchNow(key).index \in 1..(SlotCount - 1)

\* the offset of the row that search finds for a stored key
FoundRow(key) == SlotRow(SearchNow(key).index)

\* the offsets of the value bytes of the row at offset off
ValueBytes(off) ==
    {i \in 0..(PAGE_BODY_SIZE - 1) :
        /\ i >= off + ROW_HEADER_SIZE + get_key_size(body, off)
        /\ i < off + get_size(body, off)}

RowNeed(k, v) == ROW_HEADER_SIZE + Len(k) + Len(v) + SLOT_MAP_ELEMENT_SIZE

(***************************************************************************)
(* C36.  Insert space rule: save of a key that is not in the page returns  *)
(* InsufficientSpace exactly when 4 + |k| + |v| + 2 is greater than the    *)
(* free space (end - start), and Ok otherwise, an exact fit included; on   *)
(* Ok the free space shrinks by exactly 4 + |k| + |v| + 2 bytes and the    *)
(* row is written at the old free-space start, where the new slot-map      *)
(* entry points.                                                           *)
(***************************************************************************)
C36_InsertSpaceRule ==
    [][(Called("save") /\ SearchNow(last'.key).tag = "Err")
         => /\ last'.res =
                  IF RowNeed(last'.key, last'.value)
                        > free_space.end - free_space.start
                  THEN "InsufficientSpace" ELSE "Ok"
            /\ last'.res = "Ok" =>
                  /\ free_space'.end - free_space'.start =
                        (free_space.end - free_space.start)
                           - RowNeed(last'.key, last'.value)
                  /\ get_key(body', free_space.start) = last'.key
                  /\ get_value(body', free_space.start) = last'.value
                  /\ get_slot_map_element(slot_map', SearchNow(last'.key).index,
                                          body') = free_space.start]_vars

\* the slot map of the view a step leads to
SlotEntriesNext == (PAGE_BODY_SIZE - slot_map'.start) \div SLOT_MAP_ELEMENT_SIZE
SlotRowNext(i) == get_slot_map_element(slot_map', i, body')

(***************************************************************************)
(* C37.  delete_slot_map_element(index) on a slot map of n entries leaves  *)
(* a slot map of n - 1 entries, the former entries without the one at      *)
(* index and in their former order, for every index with 0 <= index < n,   *)
(* and grows the free space by one 2-byte element.  Stated on the calls    *)
(* remove makes for a delete of a stored key.                              *)
(***************************************************************************)
C37_DeleteSlotMapElement ==
    [][(/\ Called("delete") /\ last'.res = "Ok"
        /\ SearchNow(last'.key).tag = "Ok"
        /\ SearchNow(last'.key).index < SlotEntries)
         => /\ SlotEntriesNext = SlotEntries - 1
            /\ \A j \in 0..(SlotEntries - 2) :
                  SlotRowNext(j) =
                      IF j < SearchNow(last'.key).index
                      THEN SlotRow(j) ELSE SlotRow(j + 1)
            /\ free_space'.end = free_space.end + SLOT_MAP_ELEMENT_SIZE
            /\ free_space'.start = free_space.start]_vars

\* the offsets of the bytes of the row at offset off of the body d
RowBytes(d, off) ==
    {i \in 0..(PAGE_BODY_SIZE - 1) :
        i >= off /\ get_size_ok(off) /\ i < off + get_size(d, off)}

(***************************************************************************)
(* C38.  Live rows never overlap: after any sequence of save and delete    *)
(* calls, with the page view re-constructed over the bytes between calls   *)
(* or not, the byte ranges of the rows the slot-map entries refer to are   *)
(* pairwise disjoint and lie below the free-space start, and a save of a   *)
(* new key that returns Ok changes no byte of a row stored before it.      *)
(***************************************************************************)
C38_LiveRowsNeverOverlap ==
    [][/\ ~panicked' =>
             /\ \A i, j \in 0..(SlotEntriesNext - 1) :
                   i # j => RowBytes(body', SlotRowNext(i))
                              \cap RowBytes(body', SlotRowNext(j)) = {}
             /\ \A i \in 0..(SlotEntriesNext - 1) :
                   \A x \in RowBytes(body', SlotRowNext(i)) :
                       x < free_space'.start
       /\ (/\ Called("save") /\ last'.res = "Ok"
           /\ SearchNow(last'.key).tag = "Err")
             => \A i \in 0..(SlotEntries - 1) :
                   \A x \in RowBytes(body, SlotRow(i)) :
                       body'[x + 1] = body[x + 1]]_vars

(***************************************************************************)
(* C39.  Byte-distinct keys are distinct entries: for any two keys k and   *)
(* k2 that differ as byte sequences (keys that differ only by trailing     *)
(* zero bytes or in length included), save(k2, v2) and delete(k2) leave    *)
(* what get(k) returns unchanged, and get(k) returns a row only if the key *)
(* stored in the row is byte-identical to k.                               *)
(***************************************************************************)
C39_ByteDistinctKeys ==
    [][/\ \A k \in Keys :
             GetNext(k).tag = "Some" => GetNext(k).key = k
       /\ ((Called("save") \/ Called("delete")) /\ ~panicked')
             => \A k \in Keys \ {last'.key} : GetNext(k) = GetNow(k)]_vars

(***************************************************************************)
(* Part 2: the reference store, MapRustyKV (src/store/hashmap_kv.rs), fed  *)
(* the calls made on the page.                                             *)
(***************************************************************************)
\* MapRustyKV::save: HashMap::insert
map_save(ds, key, value) == [ds EXCEPT ![key] = Present(value)]

\* MapRustyKV::delete: HashMap::remove(key).is_some()
map_delete(ds, key) ==
    [store |-> [ds EXCEPT ![key] = Absent], res |-> (ds[key].tag = "Some")]

\* MapRustyKV::get
map_get(ds, key) == ds[key]

\* page.save(key, value) returning Ok, and kv_store.save(key, value)
RefSave(key, value) ==
    /\ Save(key, value)
    /\ last'.res = "Ok"
    /\ data_store' = map_save(data_store, key, value)

\* page.delete(key), and kv_store.delete(key)
RefDelete(key) ==
    /\ Delete(key)
    /\ data_store' = map_delete(data_store, key).store

\* Runs of save and delete calls on one page in which every save returns Ok
RefNext ==
    \/ ops < MaxOps /\ \E key \in Keys, value \in Values :
                           RefSave(key, value) /\ Count /\ UNCHANGED storage_vars
    \/ ops < MaxOps /\ \E key \in Keys :
                           RefDelete(key) /\ Count /\ UNCHANGED storage_vars

RefSpec == Init /\ [][RefNext]_vars

(***************************************************************************)
(* C11.  The page refines the reference store: after any sequence of save  *)
(* and delete calls on one page in which every save returned Ok, no call   *)
(* has panicked, get(k) on the page returns what the reference store fed   *)
(* the same calls returns for k (the same value, or absent), for every     *)
(* key k, and the header slot count is the number of keys of the reference *)
(* store.                                                                  *)
(***************************************************************************)
C11_RefinesMap ==
    /\ ~panicked
    /\ \A k \in Keys :
          /\ GetNow(k).tag = map_get(data_store, k).tag
          /\ GetNow(k).tag = "Some"
                => GetNow(k).value = map_get(data_store, k).value
    /\ SlotCount = Cardinality({k \in Keys : map_get(data_store, k).tag = "Some"})

(***************************************************************************)
(* Part 3: the disk manager (src/store/btree_kv/disk_manager.rs).  The     *)
(* backing file is a sequence of bytes; byte i of the file (from 0) is     *)
(* element i + 1.  Page id occupies [id * PAGE_SIZE, (id + 1) * PAGE_SIZE).*)
(***************************************************************************)
Min(a, b) == IF a <= b THEN a ELSE b

\* the contents of page buffers handed to write_page and set_data: byte i
\* of image c is a number fixed by c and i
PageImage(c) == [i \in 1..PAGE_SIZE |-> (16 * c + i) % 256]
PageImages == {PageImage(c) : c \in 1..2}

ZeroPage == [i \in 1..PAGE_SIZE |-> 0]

\* what the caller's buffer holds when it is handed to read_page
ReadBuffers == {ZeroPage, [i \in 1..PAGE_SIZE |-> 255]}

\* files found at the path when the first DiskManager is opened: none (an
\* empty file is created), a file shorter than a page, and a file of one
\* page and a fragment
InitialFiles == {<<>>, <<9, 9, 9>>, PageImage(3) \o <<9, 9>>}

\* DiskManager::new seeding num_pages with 0 whatever the file holds
disk_new_unseeded(f) == 0

\* DiskManager::new (disk_manager.rs:29-46): num_pages from the file length
disk_new(f) == Len(f) \div PAGE_SIZE

\* File::read at position pos into a buffer with room for `room` bytes: the
\* number of bytes read, 0 at end of file
file_read(f, pos, room) == IF pos >= Len(f) THEN 0 ELSE Min(Len(f) - pos, room)

\* the loop of DiskManager::read_page (disk_manager.rs:72-81)
RECURSIVE read_loop(_, _, _, _)
read_loop(f, offset, buffer, bytes_read) ==
    IF bytes_read >= PAGE_SIZE THEN buffer
    ELSE LET n == file_read(f, offset + bytes_read, PAGE_SIZE - bytes_read)
         IN  IF n = 0 THEN fill(buffer, bytes_read, PAGE_SIZE, 0)
             ELSE read_loop(f, offset,
                            copy_from_slice(buffer, bytes_read,
                                slice(f, offset + bytes_read, n)),
                            bytes_read + n)

\* read_page with the zero fill at end of file left out: the bytes the
\* file does not back are what the caller's buffer held
read_page_no_fill(f, id, buffer) ==
    [i \in 1..PAGE_SIZE |->
        IF id * PAGE_SIZE + i <= Len(f) THEN f[id * PAGE_SIZE + i]
        ELSE buffer[i]]

\* DiskManager::read_page (disk_manager.rs:64-83): the buffer it leaves
read_page(f, id, buffer) == read_loop(f, id * PAGE_SIZE, buffer, 0)

\* seek to offset and write_all(buffer): bytes between the end of the file
\* and offset read as zeros afterwards
file_write_at(f, offset, buffer) ==
    [i \in 1..Max(Len(f), offset + Len(buffer)) |->
        IF i > offset /\ i <= offset + Len(buffer) THEN buffer[i - offset]
        ELSE IF i <= Len(f) THEN f[i]
        ELSE 0]

\* write_page without the seek: the buffer goes to the end of the file
write_page_no_seek(f, id, buffer) == file_write_at(f, Len(f), buffer)

\* DiskManager::write_page (disk_manager.rs:101-111): the file it leaves
write_page(f, id, buffer) == file_write_at(f, id * PAGE_SIZE, buffer)

\* DiskManager::allocate_page (disk_manager.rs:119-123)
allocate_page(n) == [page_id |-> n, num_pages |-> n + 1]

\* The first DiskManager::new(path), over whatever file is at the path
DiskInit ==
    \E f \in InitialFiles :
        /\ file = f
        /\ num_pages = disk_new(f)
        /\ written = [p \in PageIds |-> NoPage]
        /\ written_before_open = {}
        /\ issued = {}
        /\ disk_last = DiskCall("new", 0, NoPage, NoPage)
        /\ disk_ops = 0

\* the DiskManager is dropped and DiskManager::new(path) is called again
DiskOpen ==
    /\ num_pages' = disk_new(file)
    /\ written_before_open' = {p \in PageIds : written[p] # NoPage}
    /\ disk_last' = DiskCall("new", 0, NoPage, NoPage)
    /\ UNCHANGED <<file, written, issued>>

\* disk_manager.write_page(&id, &buffer)
DiskWrite(id, buffer) ==
    /\ file' = write_page(file, id, buffer)
    /\ written' = [written EXCEPT ![id] = buffer]
    /\ disk_last' = DiskCall("write_page", id, buffer, NoPage)
    /\ UNCHANGED <<num_pages, written_before_open, issued>>

\* disk_manager.read_page(&id, &mut buffer)
DiskRead(id, buffer) ==
    /\ disk_last' = DiskCall("read_page", id, buffer,
                             read_page(file, id, buffer))
    /\ UNCHANGED <<file, num_pages, written, written_before_open, issued>>

\* disk_manager.allocate_page()
DiskAllocate ==
    /\ disk_last' = DiskCall("allocate_page",
                             allocate_page(num_pages).page_id, NoPage, NoPage)
    /\ num_pages' = allocate_page(num_pages).num_pages
    /\ issued' = issued \cup {allocate_page(num_pages).page_id}
    /\ UNCHANGED <<file, written, written_before_open>>

DiskCount == disk_ops' = disk_ops + 1

DiskNext ==
    \/ disk_ops < MaxDiskOps /\ DiskOpen /\ DiskCount
          /\ UNCHANGED <<page_vars, ref_vars, unit_vars, pool_vars, cache_vars,
                         legacy_vars>>
    \/ disk_ops < MaxDiskOps /\ \E id \in PageIds, buffer \in PageImages :
          DiskWrite(id, buffer) /\ DiskCount
          /\ UNCHANGED <<page_vars, ref_vars, unit_vars, pool_vars, cache_vars,
                         legacy_vars>>
    \/ disk_ops < MaxDiskOps /\ \E id \in PageIds, buffer \in ReadBuffers :
          DiskRead(id, buffer) /\ DiskCount
          /\ UNCHANGED <<page_vars, ref_vars, unit_vars, pool_vars, cache_vars,
                         legacy_vars>>
    \/ disk_ops < MaxDiskOps /\ DiskAllocate /\ DiskCount
          /\ UNCHANGED <<page_vars, ref_vars, unit_vars, pool_vars, cache_vars,
                         legacy_vars>>

\* a disk manager alone: no page, no reference store, no buffer pool
DiskStart ==
    PageInit /\ RefInit /\ UnitIdle /\ DiskInit /\ PoolIdle /\ CacheIdle /\ LegacyIdle

DiskSpec == DiskStart /\ [][DiskNext]_vars

DiskCalled(op) == disk_ops' = disk_ops + 1 /\ disk_last'.op = op

\* byte i (from 1) of the file lies in page id
InPage(i, id) == i > id * PAGE_SIZE /\ i <= (id + 1) * PAGE_SIZE

(***************************************************************************)
(* C17.  Disk read-after-write: read_page(id) returns exactly the          *)
(* PAGE_SIZE bytes of the most recent write_page(id), whatever write_page  *)
(* calls to other page ids came in between; and write_page(id) changes     *)
(* only the file bytes of page id and bytes of pages that were never       *)
(* written.                                                                *)
(***************************************************************************)
C17_ReadAfterWrite ==
    [][/\ \A p \in PageIds :
             written'[p] # NoPage
                => \A b \in ReadBuffers : read_page(file', p, b) = written'[p]
       /\ DiskCalled("write_page")
             => /\ Len(file') >= Len(file)
                /\ \A i \in 1..Len(file) :
                      ~InPage(i, disk_last'.id) => file'[i] = file[i]
                /\ \A i \in (Len(file) + 1)..Len(file') :
                      ~InPage(i, disk_last'.id)
                         => \A p \in PageIds : InPage(i, p) => written[p] = NoPage
      ]_vars

\* a read of a written page has returned after a write of other bytes to
\* another page
C17_Witness ==
    /\ disk_last.op = "read_page"
    /\ written[disk_last.id] # NoPage
    /\ disk_last.out = written[disk_last.id]
    /\ \E p \in PageIds :
          p # disk_last.id /\ written[p] \notin {NoPage, written[disk_last.id]}

(***************************************************************************)
(* C18.  Short-read zero-fill: read_page(id) for a page lying wholly or    *)
(* partly beyond the end of the file leaves 0 in every buffer byte the     *)
(* file does not back, whatever the buffer held before, and the file's     *)
(* bytes in the others.                                                    *)
(***************************************************************************)
C18_ShortReadZeroFill ==
    [][(DiskCalled("read_page") /\ (disk_last'.id + 1) * PAGE_SIZE > Len(file))
          => \A i \in 1..PAGE_SIZE :
                disk_last'.out[i] =
                    IF disk_last'.id * PAGE_SIZE + i <= Len(file)
                    THEN file[disk_last'.id * PAGE_SIZE + i]
                    ELSE 0]_vars

\* a page partly beyond the end of the file has been read into a buffer
\* that held no zero
C18_Witness ==
    /\ disk_last.op = "read_page"
    /\ disk_last.id * PAGE_SIZE < Len(file)
    /\ Len(file) < (disk_last.id + 1) * PAGE_SIZE
    /\ \A i \in 1..PAGE_SIZE : disk_last.buffer[i] # 0
    /\ disk_last.out[1] # 0
    /\ disk_last.out[PAGE_SIZE] = 0

(***************************************************************************)
(* C19.  PageIds are never reused: no two allocate_page() calls against    *)
(* the same backing file return the same PageId, on one DiskManager or on  *)
(* DiskManagers opened on the file one after another, with any subset of   *)
(* the allocated pages written.                                            *)
(***************************************************************************)
C19_PageIdsNeverReused ==
    [][DiskCalled("allocate_page") => disk_last'.id \notin issued]_vars

(***************************************************************************)
(* C20.  Re-opening does not clobber existing pages: on a DiskManager      *)
(* opened on a file to which pages were written with write_page, at any    *)
(* page ids, every PageId allocate_page() returns is strictly greater than *)
(* every page id written to the file before the DiskManager was opened.    *)
(***************************************************************************)
C20_AllocateAboveWritten ==
    [][DiskCalled("allocate_page")
          => \A w \in written_before_open : disk_last'.id > w]_vars

\* allocate_page has returned on a DiskManager opened after a write to a
\* page id above 0
C20_Witness ==
    /\ disk_last.op = "allocate_page"
    /\ \E w \in written_before_open : w >= 1

(***************************************************************************)
(* Part 4: the buffer pool (src/store/btree_kv/buffer_pool_manager.rs),    *)
(* its LRUCacheManager (cache_manager.rs) and the FrameHandler it hands    *)
(* out (frame.rs).  Slots are numbered from 0 as in the code; slot i is    *)
(* element i + 1 of buffer_pool and of buffer_pool_metadata.               *)
(***************************************************************************)

\* the number of frames of a pool of the given size in bytes
buffer_pool_slots(size) == size \div PAGE_SIZE

PoolSize == PoolSlots * PAGE_SIZE

\* LinkedHashSet::insert: a new item goes to the back, an item already in
\* the set is moved to the back
linked_hash_set_insert(set, item) ==
    Append(SelectSeq(set, LAMBDA x : x # item), item)

\* LRUCacheManager::new(capacity)
cache_manager_new(capacity) == [cache |-> <<>>, max_capacity |-> capacity]

is_full(cm) == Len(cm.cache) >= cm.max_capacity

\* pop_front().unwrap(): panics on an empty cache
evict_cache(cm) ==
    IF cm.cache = <<>>
    THEN [panic |-> TRUE, item |-> 0, cm |-> cm]
    ELSE [panic |-> FALSE, item |-> Head(cm.cache),
          cm |-> [cm EXCEPT !.cache = Tail(@)]]

add_push_back(cm, item) ==
    [panic |-> FALSE, cm |-> [cm EXCEPT !.cache = Append(@, item)]]

\* a full cache gives up its front item before the insert, whether or not
\* the inserted item is already in the cache
add(cm, item) ==
    LET room == IF is_full(cm)
                THEN evict_cache(cm)
                ELSE [panic |-> FALSE, item |-> 0, cm |-> cm]
    IN  [panic |-> room.panic,
         cm |-> IF room.panic
                THEN cm
                ELSE [room.cm EXCEPT
                        !.cache = linked_hash_set_insert(@, item)]]

FrameDefault == ZeroPage

new_with_path_truncating(size, f) ==
    [file |-> <<>>,
     buffer_pool |-> [i \in 1..buffer_pool_slots(size) |-> FrameDefault],
     buffer_pool_metadata |->
         [i \in 1..buffer_pool_slots(size) |-> FrameMetadataDefault],
     buffer_pool_lookup |-> [p \in PageIds |-> None],
     cache_manager |-> cache_manager_new(buffer_pool_slots(size)),
     vacant_slots |-> [i \in 1..buffer_pool_slots(size) |-> i - 1]]

\* BufferPoolManager::new_with_path(size, path) over the file f
new_with_path(size, f) ==
    [file |-> f,
     buffer_pool |-> [i \in 1..buffer_pool_slots(size) |-> FrameDefault],
     buffer_pool_metadata |->
         [i \in 1..buffer_pool_slots(size) |-> FrameMetadataDefault],
     buffer_pool_lookup |-> [p \in PageIds |-> None],
     cache_manager |-> cache_manager_new(buffer_pool_slots(size)),
     vacant_slots |-> [i \in 1..buffer_pool_slots(size) |-> i - 1]]

never_write_back(metadata) == FALSE

always_write_back(metadata) == TRUE

\* the test that guards the write-back of an evicted frame
write_back(metadata) == metadata.is_dirty

PoolPanic(bpm) ==
    [panic |-> TRUE, err |-> FALSE, index |-> 0, evicted |-> None,
     was_dirty |-> FALSE, reads |-> 0, writes |-> 0, bpm |-> bpm]

\* what the disk does with the calls of one get: they succeed, or a read
\* returns an I/O error, or a write does (leaving the file as it was)
IoOutcomes == {"ok", "read_fails", "write_fails"}

\* BufferPoolManager::evict_slot: the slot the cache manager gives up loses
\* its lookup entry and is written to the file when its frame is dirty; a
\* write that fails panics (the expect) after the cache manager and the
\* lookup have been changed
evict_slot(bpm, io) ==
    LET ev == evict_cache(bpm.cache_manager)
        meta == bpm.buffer_pool_metadata[ev.item + 1]
        removed == [bpm EXCEPT
                      !.cache_manager = ev.cm,
                      !.buffer_pool_lookup[meta.page_id[1]] = None]
    IN  IF ev.panic
        THEN PoolPanic(bpm)
        ELSE IF meta.page_id = None
        THEN PoolPanic([bpm EXCEPT !.cache_manager = ev.cm])
        ELSE IF write_back(meta) /\ io = "write_fails"
        THEN [PoolPanic(removed) EXCEPT !.index = ev.item,
                                        !.evicted = meta.page_id,
                                        !.was_dirty = meta.is_dirty,
                                        !.writes = 1]
        ELSE [panic |-> FALSE, err |-> FALSE, index |-> ev.item,
              evicted |-> meta.page_id,
              was_dirty |-> meta.is_dirty, reads |-> 0,
              writes |-> IF write_back(meta) THEN 1 ELSE 0,
              bpm |-> [removed EXCEPT
                  !.file = IF write_back(meta)
                           THEN write_page(@, meta.page_id[1],
                                           bpm.buffer_pool[ev.item + 1])
                           ELSE @,
                  !.buffer_pool_metadata[ev.item + 1].is_dirty =
                      IF write_back(meta) THEN FALSE ELSE @]]

peek_vacant_slot(bpm) ==
    [panic |-> FALSE, err |-> FALSE,
     index |-> bpm.vacant_slots[Len(bpm.vacant_slots)], evicted |-> None,
     was_dirty |-> FALSE, reads |-> 0, writes |-> 0, bpm |-> bpm]

\* vacant_slots.pop(): the last vacant slot
pop_vacant_slot(bpm) ==
    [panic |-> FALSE, err |-> FALSE,
     index |-> bpm.vacant_slots[Len(bpm.vacant_slots)], evicted |-> None, was_dirty |-> FALSE, reads |-> 0, writes |-> 0,
     bpm |-> [bpm EXCEPT !.vacant_slots = SubSeq(@, 1, Len(@) - 1)]]

contains_key_never(map, page_id) == FALSE

\* buffer_pool_lookup.contains_key(&page_id)
contains_key(map, page_id) == map[page_id] # None

\* BufferPoolManager::get on a page of the lookup: only the cache manager
\* is told
get_hit(bpm, page_id) ==
    LET frame_index == bpm.buffer_pool_lookup[page_id][1]
        added == add(bpm.cache_manager, frame_index)
    IN  [panic |-> added.panic, err |-> FALSE, index |-> frame_index,
         evicted |-> None,
         was_dirty |-> FALSE, reads |-> 0, writes |-> 0,
         bpm |-> [bpm EXCEPT !.cache_manager = added.cm]]

install_stale_frame(bpm, index, page_id, data) ==
    [bpm EXCEPT
       !.buffer_pool_metadata[index + 1] =
           [page_id |-> Some(page_id), is_dirty |-> FALSE],
       !.buffer_pool_lookup[page_id] = Some(index)]

install_without_lookup(bpm, index, page_id, data) ==
    [bpm EXCEPT
       !.buffer_pool[index + 1] = data,
       !.buffer_pool_metadata[index + 1] =
           [page_id |-> Some(page_id), is_dirty |-> FALSE]]

\* the frame of the slot takes the data read, its metadata the page id and
\* a false dirty flag, and the lookup maps the page to the slot
install(bpm, index, page_id, data) ==
    [bpm EXCEPT
       !.buffer_pool[index + 1] = data,
       !.buffer_pool_metadata[index + 1] =
           [page_id |-> Some(page_id), is_dirty |-> FALSE],
       !.buffer_pool_lookup[page_id] = Some(index)]

read_never_fails(io) == FALSE

\* disk_manager.read_page(&page_id, &mut data)? returns the I/O error
read_fails(io) == io = "read_fails"

\* BufferPoolManager::get on a page outside the lookup: the page is read
\* from the file (an error of the read is returned at once), a slot is
\* taken from the vacant ones or evicted, and the frame, its metadata, the
\* lookup and the cache manager are updated
get_miss(bpm, page_id, io) ==
    LET data == read_page(bpm.file, page_id, ZeroPage)
        slot == IF bpm.vacant_slots # <<>>
                THEN pop_vacant_slot(bpm)
                ELSE evict_slot(bpm, io)
        loaded == install(slot.bpm, slot.index, page_id, data)
        added == add(loaded.cache_manager, slot.index)
    IN  IF read_fails(io)
        THEN [panic |-> FALSE, err |-> TRUE, index |-> 0, evicted |-> None,
              was_dirty |-> FALSE, reads |-> 1, writes |-> 0, bpm |-> bpm]
        ELSE IF slot.panic
        THEN [slot EXCEPT !.reads = 1]
        ELSE [panic |-> added.panic, err |-> FALSE, index |-> slot.index,
              evicted |-> slot.evicted, was_dirty |-> slot.was_dirty,
              reads |-> 1, writes |-> slot.writes,
              bpm |-> [loaded EXCEPT !.cache_manager = added.cm]]

pool_get(bpm, page_id, io) ==
    IF contains_key(bpm.buffer_pool_lookup, page_id)
    THEN get_hit(bpm, page_id)
    ELSE get_miss(bpm, page_id, io)

\* FrameHandler::get_data on the handler of slot index
get_data(bpm, index) == bpm.buffer_pool[index + 1]

set_data_not_dirty(bpm, index, data) ==
    [bpm EXCEPT !.buffer_pool[index + 1] = data]

\* FrameHandler::set_data on the handler of slot index
set_data(bpm, index, data) ==
    [bpm EXCEPT !.buffer_pool[index + 1] = data,
                !.buffer_pool_metadata[index + 1].is_dirty = TRUE]

\* the BufferPoolManager as one value
Bpm ==
    [file |-> file, buffer_pool |-> buffer_pool,
     buffer_pool_metadata |-> buffer_pool_metadata,
     buffer_pool_lookup |-> buffer_pool_lookup,
     cache_manager |-> cache_manager, vacant_slots |-> vacant_slots]

SetBpm(bpm) ==
    /\ file' = bpm.file
    /\ buffer_pool' = bpm.buffer_pool
    /\ buffer_pool_metadata' = bpm.buffer_pool_metadata
    /\ buffer_pool_lookup' = bpm.buffer_pool_lookup
    /\ cache_manager' = bpm.cache_manager
    /\ vacant_slots' = bpm.vacant_slots

\* BufferPoolManager::new_with_path(size, path) over a file that may
\* already hold pages
PoolOpen(size) ==
    \E f \in InitialFiles :
        /\ file = f
        /\ num_pages = disk_new(f)
        /\ written = [p \in PageIds |-> NoPage]
        /\ written_before_open = {}
        /\ issued = {}
        /\ disk_last = DiskCall("new", 0, NoPage, NoPage)
        /\ disk_ops = 0
        /\ buffer_pool = new_with_path(size, f).buffer_pool
        /\ buffer_pool_metadata = new_with_path(size, f).buffer_pool_metadata
        /\ buffer_pool_lookup = new_with_path(size, f).buffer_pool_lookup
        /\ cache_manager = new_with_path(size, f).cache_manager
        /\ vacant_slots = new_with_path(size, f).vacant_slots
        /\ handler = None
        /\ recency = <<>>
        /\ set_to = [p \in PageIds |-> NoPage]
        /\ pool_last = PoolCall("new", None, FALSE, None, None, FALSE, 0, 0,
                                NoPage)
        /\ pool_ops = 0
        /\ restart = [opened_on |-> f, count |-> 0,
                      durable |-> [p \in PageIds |-> NoPage],
                      dropped |-> [p \in PageIds |-> NoPage]]
        /\ modified = {}

PoolInit == PoolOpen(PoolSize)

\* the sizes in bytes a pool is constructed with: less than one page, one
\* page, one page and a fragment, PoolSlots pages
PoolSizes == {PAGE_SIZE - 1, PAGE_SIZE, PAGE_SIZE + 1, PoolSize}

\* buffer_pool_manager.get(&PageId(page_id)) while the disk behaves as io
\* says; the handler it returns replaces the one the caller held
PoolGet(page_id, io) ==
    \E r \in {pool_get(Bpm, page_id, io)} :
        /\ SetBpm(r.bpm)
        /\ handler' = IF r.panic \/ r.err THEN None ELSE Some(r.index)
        /\ recency' = IF r.panic \/ r.err
                      THEN recency
                      ELSE linked_hash_set_insert(recency, page_id)
        /\ written' = IF ~r.panic /\ r.writes > 0
                      THEN [written EXCEPT ![r.evicted[1]] =
                               buffer_pool[r.index + 1]]
                      ELSE written
        /\ restart' = IF ~r.panic /\ r.evicted # None /\ r.was_dirty
                      THEN [restart EXCEPT !.durable[r.evicted[1]] =
                               buffer_pool[r.index + 1]]
                      ELSE restart
        /\ pool_last' =
             [PoolCall("get", Some(page_id),
                       buffer_pool_lookup[page_id] # None,
                       IF r.panic \/ r.err THEN None ELSE Some(r.index),
                       r.evicted, r.was_dirty, r.reads, r.writes,
                       IF r.panic \/ r.err
                       THEN NoPage ELSE get_data(r.bpm, r.index))
                EXCEPT !.res = IF r.panic THEN "Panic"
                               ELSE IF r.err THEN "Err" ELSE "Ok",
                       !.io = io]
        /\ modified' = IF ~r.panic /\ ~r.err /\ buffer_pool_lookup[page_id] = None
                       THEN modified \ {page_id}
                       ELSE modified
        /\ UNCHANGED set_to

\* the pool is dropped and BufferPoolManager::new_with_path is called again
\* on the same file; what the dirty frames held is lost
PoolReopen ==
    /\ SetBpm(new_with_path(PoolSize, file))
    /\ num_pages' = disk_new(new_with_path(PoolSize, file).file)
    /\ handler' = None
    /\ recency' = <<>>
    /\ set_to' = [p \in PageIds |-> NoPage]
    /\ restart' = [restart EXCEPT
                     !.count = @ + 1,
                     !.dropped = [p \in PageIds |->
                        IF /\ buffer_pool_lookup[p] # None
                           /\ buffer_pool_metadata[
                                  buffer_pool_lookup[p][1] + 1].is_dirty
                        THEN buffer_pool[buffer_pool_lookup[p][1] + 1]
                        ELSE NoPage]]
    /\ pool_last' = PoolCall("new", None, FALSE, None, None, FALSE, 0, 0,
                             NoPage)
    /\ modified' = {}
    /\ UNCHANGED written

\* handler.set_data(data) on the handler of the latest get
PoolSetData(data) ==
    /\ handler # None
    /\ SetBpm(set_data(Bpm, handler[1], data))
    /\ set_to' = [set_to EXCEPT
                    ![buffer_pool_metadata[handler[1] + 1].page_id[1]] = data]
    /\ pool_last' = PoolCall("set_data",
                             buffer_pool_metadata[handler[1] + 1].page_id,
                             FALSE, handler, None, FALSE, 0, 0, data)
    /\ modified' = modified \cup
                       {buffer_pool_metadata[handler[1] + 1].page_id[1]}
    /\ UNCHANGED <<handler, recency, written, restart>>

PoolCount == pool_ops' = pool_ops + 1

\* what a pool step leaves alone outside the pool and its file
PoolFrame ==
    UNCHANGED <<page_vars, ref_vars, unit_vars, cache_vars, legacy_vars,
                written_before_open, issued, disk_last, disk_ops>>

\* the calls of a caller whose disk never fails
PoolNext ==
    \/ pool_ops < MaxPoolOps /\ pool_last.res # "Panic"
          /\ \E page_id \in PageIds : PoolGet(page_id, "ok")
          /\ PoolCount
          /\ PoolFrame /\ UNCHANGED num_pages
    \/ pool_ops < MaxPoolOps /\ pool_last.res # "Panic"
          /\ \E data \in PageImages : PoolSetData(data)
          /\ PoolCount
          /\ PoolFrame /\ UNCHANGED num_pages

\* the same calls, and gets during which the disk fails
PoolFaultNext ==
    \/ pool_ops < MaxFaultOps /\ pool_last.res # "Panic"
          /\ \E page_id \in PageIds : PoolGet(page_id, "ok")
          /\ PoolCount
          /\ PoolFrame /\ UNCHANGED num_pages
    \/ pool_ops < MaxFaultOps /\ pool_last.res # "Panic"
          /\ \E data \in PageImages : PoolSetData(data)
          /\ PoolCount
          /\ PoolFrame /\ UNCHANGED num_pages
    \/ pool_ops < MaxFaultOps /\ pool_last.res # "Panic"
          /\ \E page_id \in PageIds, io \in IoOutcomes \ {"ok"} :
                PoolGet(page_id, io)
          /\ PoolCount
          /\ PoolFrame /\ UNCHANGED num_pages

\* the same calls, and restarts of the pool on its file
PoolRestartNext ==
    \/ pool_ops < MaxPoolOps /\ pool_last.res # "Panic"
          /\ \E page_id \in PageIds : PoolGet(page_id, "ok")
          /\ PoolCount
          /\ PoolFrame /\ UNCHANGED num_pages
    \/ pool_ops < MaxPoolOps /\ pool_last.res # "Panic"
          /\ \E data \in PageImages : PoolSetData(data)
          /\ PoolCount
          /\ PoolFrame /\ UNCHANGED num_pages
    \/ pool_ops < MaxPoolOps /\ pool_last.res # "Panic"
          /\ restart.count < MaxRestarts
          /\ PoolReopen
          /\ PoolCount
          /\ PoolFrame

\* a buffer pool and its disk manager alone
PoolStart ==
    PageInit /\ RefInit /\ UnitIdle /\ PoolInit /\ CacheIdle /\ LegacyIdle

PoolSpec == PoolStart /\ [][PoolNext]_vars

PoolFaultSpec == PoolStart /\ [][PoolFaultNext]_vars

PoolRestartSpec == PoolStart /\ [][PoolRestartNext]_vars

\* a buffer pool of any of the sizes, its disk never failing
PoolAnyStart ==
    /\ PageInit /\ RefInit /\ UnitIdle /\ CacheIdle /\ LegacyIdle
    /\ \E size \in PoolSizes : PoolOpen(size)

PoolAnySpec == PoolAnyStart /\ [][PoolNext]_vars

\* vocabulary of the buffer pool claims
Resident == {p \in PageIds : buffer_pool_lookup[p] # None}

ResidentNext == {p \in PageIds : buffer_pool_lookup'[p] # None}

\* the resident page whose latest get is the oldest
LeastRecentlyUsed ==
    Head(SelectSeq(recency, LAMBDA p : buffer_pool_lookup[p] # None))

\* this step is a get that returned a handler
PoolGot ==
    /\ pool_ops' = pool_ops + 1
    /\ pool_last'.op = "get"
    /\ pool_last'.res = "Ok"

PoolHit == PoolGot /\ pool_last'.hit

PoolMiss == PoolGot /\ ~pool_last'.hit

PoolEvicted == PoolMiss /\ pool_last'.evicted # None

\* the bytes the file holds for a page, as a read of it returns them
FilePage(f, page_id) == read_page(f, page_id, ZeroPage)

\* C12: a get that misses while no slot is vacant removes exactly one
\* resident page from the lookup, the least recently used one by the order
\* of the latest get of each page, and every other resident page stays.
C12_EvictsLeastRecentlyUsed ==
    [][(PoolMiss /\ vacant_slots = <<>>)
         => Resident \ ResidentNext = {LeastRecentlyUsed}]_vars

\* C13: when a get evicts a page whose frame is dirty (changed with
\* set_data), the bytes the file holds for that page after the eviction are
\* the bytes the frame held when it was evicted.
C13_DirtyWriteBack ==
    [][(PoolEvicted /\ pool_last'.was_dirty)
         => FilePage(file', pool_last'.evicted[1])
              = buffer_pool[pool_last'.slot[1] + 1]]_vars

\* a dirty page has been evicted and the file holds what set_data gave it
C13_Witness ==
    /\ pool_last.op = "get"
    /\ pool_last.evicted # None
    /\ pool_last.was_dirty
    /\ set_to[pool_last.evicted[1]] \in PageImages
    /\ FilePage(file, pool_last.evicted[1]) = set_to[pool_last.evicted[1]]

\* C14: when a get evicts a page whose frame is not dirty, write_page is not
\* called and the file is left as it was.
C14_CleanEvictionDoesNotWrite ==
    [][(PoolEvicted /\ ~pool_last'.was_dirty)
         => (pool_last'.writes = 0 /\ file' = file)]_vars

\* a clean page has been evicted without a write
C14_Witness ==
    /\ pool_last.op = "get"
    /\ pool_last.evicted # None
    /\ ~pool_last.was_dirty
    /\ pool_last.writes = 0

\* C15: a get of a page returns the data of the latest set_data made on
\* that page, whatever gets (hits, misses, evictions, the eviction and
\* reload of the page itself) came in between.
C15_ReadYourWrites ==
    [][(PoolGot /\ set_to[pool_last'.page_id[1]] # NoPage)
         => pool_last'.data = set_to[pool_last'.page_id[1]]]_vars

\* a page changed with set_data has been evicted and read back with a get
C15_Witness ==
    /\ pool_last.op = "get"
    /\ ~pool_last.hit
    /\ set_to[pool_last.page_id[1]] \in PageImages
    /\ pool_last.data = set_to[pool_last.page_id[1]]

\* C16: a get of a page of the lookup reads and writes nothing on the disk,
\* returns the handler of the slot the lookup maps the page to, and leaves
\* the lookup, the vacant slots and every frame's bytes and dirty flag as
\* they were.
C16_CacheHitNoIO ==
    [][PoolHit
         => /\ pool_last'.reads = 0
            /\ pool_last'.writes = 0
            /\ file' = file
            /\ pool_last'.slot = buffer_pool_lookup[pool_last'.page_id[1]]
            /\ buffer_pool_lookup' = buffer_pool_lookup
            /\ vacant_slots' = vacant_slots
            /\ buffer_pool' = buffer_pool
            /\ buffer_pool_metadata' = buffer_pool_metadata]_vars

\* a get has hit a frame that is dirty
C16_Witness ==
    /\ pool_last.op = "get"
    /\ pool_last.hit
    /\ pool_last.reads = 0
    /\ buffer_pool_metadata[pool_last.slot[1] + 1].is_dirty

(***************************************************************************)
(* Part 5: the two LRU caches on their own.  LRUCachePolicyEngine          *)
(* (src/store/btree_kv/cache_policy_engine.rs) and LRUCacheManager         *)
(* (cache_manager.rs, the operators of Part 4) are each driven by          *)
(* arbitrary calls.                                                        *)
(***************************************************************************)

\* LinkedHashSet::insert_if_absent: an item already in the set stays where
\* it is
linked_hash_set_insert_if_absent(set, item) ==
    IF \E i \in 1..Len(set) : set[i] = item THEN set ELSE Append(set, item)

\* LRUCachePolicyEngine::get_size
engine_get_size(e) == Len(e.cache)

\* LRUCachePolicyEngine::evict: pop_front().unwrap() panics on an empty set
evict(e) ==
    IF e.cache = <<>>
    THEN [panic |-> TRUE, item |-> 0, engine |-> e]
    ELSE [panic |-> FALSE, item |-> Head(e.cache),
          engine |-> [e EXCEPT !.cache = Tail(@)]]

touch_keeps_place(e, item) ==
    LET inserted ==
            [e EXCEPT !.cache = linked_hash_set_insert_if_absent(@, item)]
    IN  [panic |-> ~(Len(inserted.cache) <= inserted.max_capacity),
         engine |-> inserted]

\* LRUCachePolicyEngine::touch: the insert, then the capacity assertion
touch(e, item) ==
    LET inserted == [e EXCEPT !.cache = linked_hash_set_insert(@, item)]
    IN  [panic |-> ~(Len(inserted.cache) <= inserted.max_capacity),
         engine |-> inserted]

\* cache_manager.touch(&item)
EngineTouch(item) ==
    /\ engine' = touch(engine, item).engine
    /\ touch_time' = [touch_time EXCEPT ![item] = engine_ops + 1]
    /\ engine_last' = [CacheCall("touch", Some(item), None, engine.cache)
                         EXCEPT !.res = IF touch(engine, item).panic
                                        THEN "Panic" ELSE "Ok"]

\* cache_manager.evict()
EngineEvict ==
    /\ engine' = evict(engine).engine
    /\ touch_time' = IF evict(engine).panic
                     THEN touch_time
                     ELSE [touch_time EXCEPT ![evict(engine).item] = 0]
    /\ engine_last' =
         IF evict(engine).panic
         THEN [CacheCall("evict", None, None, engine.cache)
                 EXCEPT !.res = "Panic"]
         ELSE CacheCall("evict", None, Some(evict(engine).item),
                        engine.cache)

EngineCount == engine_ops' = engine_ops + 1

EngineNext ==
    \/ engine_ops < MaxPoolOps /\ engine_last.res = "Ok"
          /\ \E item \in CacheItems : EngineTouch(item)
          /\ EngineCount
          /\ UNCHANGED <<page_vars, ref_vars, unit_vars, disk_vars, pool_vars, lru_vars,
                         legacy_vars>>
    \/ engine_ops < MaxPoolOps /\ engine_last.res = "Ok"
          /\ EngineEvict
          /\ EngineCount
          /\ UNCHANGED <<page_vars, ref_vars, unit_vars, disk_vars, pool_vars, lru_vars,
                         legacy_vars>>

EngineSpec == Init /\ [][EngineNext]_vars

\* the items the engine tracks, by the history of touches and evictions
Tracked == {i \in CacheItems : touch_time[i] > 0}

\* the tracked item whose latest touch is the oldest
OldestTouched ==
    CHOOSE i \in Tracked : \A j \in Tracked : touch_time[i] <= touch_time[j]

EngineCalled(op) ==
    /\ engine_ops' = engine_ops + 1
    /\ engine_last'.op = op
    /\ engine_last'.res = "Ok"

\* C21: as long as no call has panicked, evict removes and returns the
\* tracked item whose latest touch is the oldest, and a touch of a tracked
\* item leaves get_size and the set of tracked items as they were and makes
\* the item the most recently used one.
C21_EngineLruOrder ==
    [][/\ EngineCalled("evict")
          => /\ engine_last'.out = Some(OldestTouched)
             /\ engine_get_size(engine') = engine_get_size(engine) - 1
             /\ \A i \in 1..Len(engine'.cache) :
                    engine'.cache[i] # OldestTouched
       /\ (EngineCalled("touch") /\ engine_last'.item[1] \in Tracked)
          => /\ engine_get_size(engine') = engine_get_size(engine)
             /\ {engine'.cache[i] : i \in 1..Len(engine'.cache)}
                  = {engine.cache[i] : i \in 1..Len(engine.cache)}
             /\ engine'.cache[Len(engine'.cache)] = engine_last'.item[1]
      ]_vars

\* an evict has returned the older of two tracked items after three calls,
\* the last of which touched the item that stayed
C21_Witness ==
    /\ engine_last.op = "evict"
    /\ engine_last.res = "Ok"
    /\ engine_ops = 4
    /\ Len(engine_last.before) = 2
    /\ engine_last.out = Some(engine_last.before[1])
    /\ touch_time[engine_last.before[2]] = 3

\* cache_manager.add(&item)
LruAdd(item) ==
    /\ lru_cache' = add(lru_cache, item).cm
    /\ lru_last' = [CacheCall("add", Some(item), None, lru_cache.cache)
                      EXCEPT !.res = IF add(lru_cache, item).panic
                                     THEN "Panic" ELSE "Ok"]

\* cache_manager.evict_cache()
LruEvictCache ==
    /\ lru_cache' = evict_cache(lru_cache).cm
    /\ lru_last' =
         IF evict_cache(lru_cache).panic
         THEN [CacheCall("evict_cache", None, None, lru_cache.cache)
                 EXCEPT !.res = "Panic"]
         ELSE CacheCall("evict_cache", None,
                        Some(evict_cache(lru_cache).item), lru_cache.cache)

LruCount == lru_ops' = lru_ops + 1

LruNext ==
    \/ lru_ops < MaxPoolOps /\ lru_last.res = "Ok"
          /\ \E item \in CacheItems : LruAdd(item)
          /\ LruCount
          /\ UNCHANGED <<page_vars, ref_vars, unit_vars, disk_vars, pool_vars,
                         engine_vars, legacy_vars>>
    \/ lru_ops < MaxPoolOps /\ lru_last.res = "Ok"
          /\ LruEvictCache
          /\ LruCount
          /\ UNCHANGED <<page_vars, ref_vars, unit_vars, disk_vars, pool_vars,
                         engine_vars, legacy_vars>>

LruSpec == Init /\ [][LruNext]_vars

\* the cache without one item, in order
Without(cache, item) == SelectSeq(cache, LAMBDA x : x # item)

\* this step is an add of an item the cache already holds
LruAddedCached ==
    /\ lru_ops' = lru_ops + 1
    /\ lru_last'.op = "add"
    /\ lru_last'.res = "Ok"
    /\ \E i \in 1..Len(lru_cache.cache) :
           lru_cache.cache[i] = lru_last'.item[1]

\* C28: an add of an item already in the cache only moves that item to the
\* most recently used place: every other item stays in the cache, in the
\* same relative order, whether or not the cache is full.
C28_AddCachedOnlyMoves ==
    [][LruAddedCached
         => /\ Without(lru_cache'.cache, lru_last'.item[1])
                 = Without(lru_cache.cache, lru_last'.item[1])
            /\ lru_cache'.cache[Len(lru_cache'.cache)] = lru_last'.item[1]
      ]_vars

(***************************************************************************)
(* Further claims on the buffer pool of Part 4.                            *)
(***************************************************************************)

\* the slots the cache manager of the pool tracks
CachedSlots ==
    {cache_manager.cache[i] : i \in 1..Len(cache_manager.cache)}

\* the slots the lookup maps a page to
MappedSlots == {buffer_pool_lookup[p][1] : p \in Resident}

\* C22: whatever gets are made on the pool, its cache never tracks more
\* keys than the pool has slots.
C22_BoundedCacheOccupancy ==
    Len(cache_manager.cache) <= Len(buffer_pool)

\* the cache is full after a get that had to evict
C22_Witness ==
    /\ pool_last.op = "get"
    /\ pool_last.res = "Ok"
    /\ pool_last.evicted # None
    /\ Len(buffer_pool) = PoolSlots
    /\ Len(cache_manager.cache) = Len(buffer_pool)

\* the bytes of a page as of its last dirty eviction, or as the file held
\* them when the first pool was opened on it
DurableBytes(p) ==
    IF restart.durable[p] # NoPage
    THEN restart.durable[p]
    ELSE FilePage(restart.opened_on, p)

\* this step is a get that evicted page p while its frame was dirty
PoolEvictedDirty(p) ==
    /\ PoolEvicted
    /\ pool_last'.was_dirty
    /\ pool_last'.evicted = Some(p)

\* C23: the bytes the file holds for a page change only when that page is
\* evicted while dirty; and after the pool was dropped and a new one opened
\* on the file, a get that loads a page returns its bytes as of its last
\* dirty eviction (zeros if the file was new and the page never written),
\* so that changes made with set_data after that eviction are absent.
C23_DurabilityAcrossRestarts ==
    [][/\ file' # file
            => \E p \in PageIds :
                  /\ PoolEvictedDirty(p)
                  /\ \A q \in PageIds \ {p} :
                         FilePage(file', q) = FilePage(file, q)
       /\ (PoolMiss /\ restart.count > 0)
            => /\ pool_last'.data = DurableBytes(pool_last'.page_id[1])
               /\ (/\ restart.durable[pool_last'.page_id[1]] = NoPage
                   /\ restart.opened_on = <<>>)
                    => pool_last'.data = ZeroPage
      ]_vars

\* after a restart a get has loaded the bytes a page had at its dirty
\* eviction by the earlier pool
C23_Witness ==
    /\ pool_last.op = "get"
    /\ pool_last.res = "Ok"
    /\ ~pool_last.hit
    /\ restart.count > 0
    /\ restart.durable[pool_last.page_id[1]] \in PageImages
    /\ pool_last.data = restart.durable[pool_last.page_id[1]]

\* C25: after a get that misses and returns a handler, the lookup maps the
\* page to the handler's slot, the metadata of that slot records the page
\* with a false dirty flag, its frame holds the bytes the file holds for
\* the page (zeros where the file is short), and the slot is the most
\* recently used one; if a slot was vacant no page was evicted and nothing
\* was written.
C25_MissInstallsPage ==
    [][PoolMiss
         => /\ buffer_pool_lookup'[pool_last'.page_id[1]] = pool_last'.slot
            /\ buffer_pool_metadata'[pool_last'.slot[1] + 1]
                 = [page_id |-> pool_last'.page_id, is_dirty |-> FALSE]
            /\ buffer_pool'[pool_last'.slot[1] + 1]
                 = FilePage(file, pool_last'.page_id[1])
            /\ buffer_pool'[pool_last'.slot[1] + 1]
                 = FilePage(file', pool_last'.page_id[1])
            /\ cache_manager'.cache[Len(cache_manager'.cache)]
                 = pool_last'.slot[1]
            /\ vacant_slots # <<>>
                 => /\ pool_last'.evicted = None
                    /\ pool_last'.writes = 0
                    /\ file' = file
                    /\ Resident \subseteq ResidentNext
      ]_vars

\* a get has missed with a vacant slot and loaded a page the file holds
C25_Witness ==
    /\ pool_last.op = "get"
    /\ pool_last.res = "Ok"
    /\ ~pool_last.hit
    /\ pool_last.evicted = None
    /\ pool_last.data # ZeroPage
    /\ buffer_pool_lookup[pool_last.page_id[1]] = pool_last.slot
    /\ buffer_pool[pool_last.slot[1] + 1] = pool_last.data

\* the slot numbers of the pool
Slots == 0..(Len(buffer_pool) - 1)

VacantSlots == {vacant_slots[i] : i \in 1..Len(vacant_slots)}

\* C26: a pool starts with floor(capacity / PAGE_SIZE) slots, and after any
\* gets no two pages share a slot, the metadata of the slot a page is
\* mapped to records that page, no slot is both vacant and mapped, and the
\* mapped pages and the vacant slots together number the slots.
C26_PoolBookkeeping ==
    pool_last.res # "Panic"
      => /\ Len(buffer_pool) = PoolSize \div PAGE_SIZE
         /\ Len(buffer_pool_metadata) = Len(buffer_pool)
         /\ \A p \in Resident, q \in Resident :
                buffer_pool_lookup[p] = buffer_pool_lookup[q] => p = q
         /\ \A p \in Resident :
                /\ buffer_pool_lookup[p][1] \in Slots
                /\ buffer_pool_metadata[buffer_pool_lookup[p][1] + 1].page_id
                     = Some(p)
         /\ VacantSlots \cap MappedSlots = {}
         /\ Cardinality(VacantSlots) = Len(vacant_slots)
         /\ Cardinality(Resident) + Len(vacant_slots) = Len(buffer_pool)

\* the pool is full after an eviction: every slot is mapped to one page
C26_Witness ==
    /\ pool_last.op = "get"
    /\ pool_last.res = "Ok"
    /\ pool_last.evicted # None
    /\ vacant_slots = <<>>
    /\ Cardinality(Resident) = PoolSlots
    /\ MappedSlots = Slots

\* C27: after any gets that returned, the slots the pool's cache tracks are
\* the slots the lookup maps a page to, so that every resident page can be
\* evicted; a hit removes no other slot from the cache.
C27_ResidentStaysEvictable ==
    pool_last.res # "Panic" => CachedSlots = MappedSlots

\* this step is a get whose disk read failed: the page was not in the
\* lookup and the disk answers reads with an I/O error
PoolReadFailed ==
    /\ pool_ops' = pool_ops + 1
    /\ pool_last'.op = "get"
    /\ pool_last'.io = "read_fails"
    /\ ~pool_last'.hit

\* C29: when the disk read of a miss fails, get returns the I/O error and
\* the pool is as before the call: no slot is taken from the vacant list,
\* no page is evicted or written back, and the lookup, the cache order, the
\* frames and the metadata are unchanged.
C29_ReadFailureNoEffect ==
    [][PoolReadFailed
         => /\ pool_last'.res = "Err"
            /\ pool_last'.evicted = None
            /\ pool_last'.writes = 0
            /\ vacant_slots' = vacant_slots
            /\ buffer_pool_lookup' = buffer_pool_lookup
            /\ cache_manager' = cache_manager
            /\ buffer_pool' = buffer_pool
            /\ buffer_pool_metadata' = buffer_pool_metadata
            /\ file' = file
      ]_vars

\* a read has failed on a full pool whose next victim is dirty
C29_Witness ==
    /\ pool_last.op = "get"
    /\ pool_last.res = "Err"
    /\ vacant_slots = <<>>
    /\ cache_manager.cache # <<>>
    /\ buffer_pool_metadata[Head(cache_manager.cache) + 1].is_dirty

\* this step is a get that evicted a dirty page whose write to the disk
\* failed
PoolWriteFailed ==
    /\ pool_ops' = pool_ops + 1
    /\ pool_last'.op = "get"
    /\ pool_last'.io = "write_fails"
    /\ ~pool_last'.hit
    /\ vacant_slots = <<>>
    /\ buffer_pool_metadata[Head(cache_manager.cache) + 1].is_dirty

\* C30: when write_page fails while a get evicts the dirty page q, q stays
\* in the lookup, its slot stays tracked by the cache, its frame and dirty
\* flag are unchanged, and the requested page is not installed.
C30_WriteFailureLeavesFrame ==
    [][PoolWriteFailed
         => /\ buffer_pool_lookup' = buffer_pool_lookup
            /\ Head(cache_manager.cache) \in
                 {cache_manager'.cache[i] :
                      i \in 1..Len(cache_manager'.cache)}
            /\ buffer_pool' = buffer_pool
            /\ buffer_pool_metadata' = buffer_pool_metadata
      ]_vars

(***************************************************************************)
(* C31.  Clean frames mirror the disk: in every state of a pool, each      *)
(* resident page whose dirty flag is false has the bytes the file holds    *)
(* for it in its frame (zeros beyond the end of the file), and the dirty   *)
(* flag of a resident page is true exactly when set_data was called on it  *)
(* since it was last loaded.                                               *)
(***************************************************************************)
C31_CleanFramesMirrorDisk ==
    \A p \in Resident :
        /\ ~buffer_pool_metadata[buffer_pool_lookup[p][1] + 1].is_dirty
              => buffer_pool[buffer_pool_lookup[p][1] + 1] = FilePage(file, p)
        /\ buffer_pool_metadata[buffer_pool_lookup[p][1] + 1].is_dirty
              <=> p \in modified

\* a page that was changed with set_data, written back on its eviction and
\* loaded again is resident and clean, with the bytes that were written
C31_Witness ==
    \E p \in Resident :
        /\ set_to[p] # NoPage
        /\ p \notin modified
        /\ written[p] = set_to[p]
        /\ written[p] # ZeroPage
        /\ ~buffer_pool_metadata[buffer_pool_lookup[p][1] + 1].is_dirty
        /\ buffer_pool[buffer_pool_lookup[p][1] + 1] = written[p]

(***************************************************************************)
(* C32.  No invariant violation in normal use: on a pool constructed by    *)
(* new_with_path with any size, while the disk does not fail, no get       *)
(* panics (no eviction is requested from an empty cache manager and no     *)
(* evicted slot lacks a page id): every get returns a handler.             *)
(***************************************************************************)
C32_GetAlwaysReturnsHandler ==
    [][(pool_ops' = pool_ops + 1 /\ pool_last'.op = "get")
         => (pool_last'.res = "Ok" /\ handler' # None)]_vars

(***************************************************************************)
(* Part 6: the earlier buffer pool over a pager                            *)
(* (src/store/btree_kv/buffer_pool.rs, src/store/btree_kv/pager.rs).  The  *)
(* frames are one array of SLOT_COUNT pages; lru_frames has the most       *)
(* recently used frame at the front.                                       *)
(***************************************************************************)

\* Pager::read_page: None for a page the pager does not hold
pager_read_page(pages, id) ==
    IF pages[id] = NoPage THEN None ELSE Some(pages[id])

\* Pager::write_page: the data, padded with zeros to a page
pager_write_page(pages, id, data) ==
    [pages EXCEPT ![id] =
        [i \in 1..PAGE_SIZE |-> IF i <= Len(data) THEN data[i] ELSE 0]]

\* frames[frame_index * PAGE_SIZE..(frame_index + 1) * PAGE_SIZE]
frame_of(fr, frame_index) ==
    [i \in 1..PAGE_SIZE |-> fr[frame_index * PAGE_SIZE + i]]

touch_frame_push_back(lru, frame_index) ==
    Append(Without(lru, frame_index), frame_index)

\* BufferPoolManager::touch_frame: the frame index is taken out of the
\* queue, if it is there, and pushed to the front
touch_frame(lru, frame_index) ==
    <<frame_index>> \o Without(lru, frame_index)

LegacyPanic(bp) ==
    [panic |-> TRUE, index |-> 0, evicted |-> None, writes |-> 0,
     reads |-> 0, bp |-> bp]

\* BufferPoolManager::evict_lru_frame: the frame at the back of the queue is
\* written to the pager if dirty, leaves the lookup, and its metadata is
\* reset
evict_lru_frame(bp) ==
    LET evicted_index == bp.lru_frames[Len(bp.lru_frames)]
        popped == [bp EXCEPT !.lru_frames = SubSeq(@, 1, Len(@) - 1)]
        meta == bp.frame_metadata[evicted_index + 1]
    IN  IF bp.lru_frames = <<>>
        THEN LegacyPanic(bp)
        ELSE IF meta.page_id = None
        THEN LegacyPanic(popped)
        ELSE [panic |-> FALSE, index |-> evicted_index,
              evicted |-> meta.page_id,
              writes |-> IF meta.is_dirty THEN 1 ELSE 0, reads |-> 0,
              bp |-> [popped EXCEPT
                  !.pager = IF meta.is_dirty
                            THEN pager_write_page(@, meta.page_id[1],
                                     frame_of(bp.frames, evicted_index))
                            ELSE @,
                  !.lookup[meta.page_id[1]] = None,
                  !.frame_metadata[evicted_index + 1] =
                      FrameMetadataDefault]]

\* BufferPoolManager::allocate_frame: a vacant frame, or else the evicted
\* one, takes the data and the page id, enters the lookup and is touched
allocate_frame(bp, id, data) ==
    LET slot == IF bp.vacant_frames # <<>>
                THEN [panic |-> FALSE,
                      index |-> bp.vacant_frames[Len(bp.vacant_frames)],
                      evicted |-> None, writes |-> 0, reads |-> 0,
                      bp |-> [bp EXCEPT !.vacant_frames =
                                 SubSeq(@, 1, Len(@) - 1)]]
                ELSE evict_lru_frame(bp)
    IN  IF slot.panic
        THEN slot
        ELSE [slot EXCEPT !.bp =
                [@ EXCEPT
                   !.frames = [i \in 1..BUFFER_POOL_SIZE |->
                                 IF /\ i > slot.index * PAGE_SIZE
                                    /\ i <= (slot.index + 1) * PAGE_SIZE
                                 THEN data[i - slot.index * PAGE_SIZE]
                                 ELSE @[i]],
                   !.frame_metadata[slot.index + 1] =
                       [page_id |-> Some(id), is_dirty |-> FALSE],
                   !.lookup[id] = Some(slot.index),
                   !.lru_frames = touch_frame(@, slot.index)]]

\* BufferPoolManager::get_page: a page of the lookup is touched; another
\* is read from the pager (a page the pager lacks panics) and allocated
get_page(bp, id) ==
    IF bp.lookup[id] # None
    THEN [panic |-> FALSE, index |-> bp.lookup[id][1], evicted |-> None,
          writes |-> 0, reads |-> 0,
          bp |-> [bp EXCEPT
                    !.lru_frames = touch_frame(@, bp.lookup[id][1])]]
    ELSE IF pager_read_page(bp.pager, id) = None
    THEN [LegacyPanic(bp) EXCEPT !.reads = 1]
    ELSE [allocate_frame(bp, id, pager_read_page(bp.pager, id)[1])
            EXCEPT !.reads = 1]

\* the pool as one value
Bp ==
    [frames |-> frames, frame_metadata |-> frame_metadata,
     lookup |-> lookup, vacant_frames |-> vacant_frames,
     lru_frames |-> lru_frames, pager |-> pager]

SetBp(bp) ==
    /\ frames' = bp.frames
    /\ frame_metadata' = bp.frame_metadata
    /\ lookup' = bp.lookup
    /\ vacant_frames' = bp.vacant_frames
    /\ lru_frames' = bp.lru_frames
    /\ pager' = bp.pager

\* the pagers a pool is built on: one holds every page, the other lacks
\* the last one
LegacyPagers ==
    {[p \in PageIds |-> PageImage(p + 1)],
     [p \in PageIds |-> IF p = MaxPageId THEN NoPage ELSE PageImage(p + 1)]}

LegacyInit == \E pages \in LegacyPagers : LegacyStart(pages)

\* buffer_pool.get_page(&PageId::new(id))
LegacyGetPage(id) ==
    LET r == get_page(Bp, id)
    IN  /\ SetBp(r.bp)
        /\ legacy_recency' = IF r.panic
                             THEN legacy_recency
                             ELSE linked_hash_set_insert(legacy_recency, id)
        /\ legacy_last' =
             [LegacyCall("get_page", Some(id), lookup[id] # None, r.evicted,
                         r.reads, r.writes,
                         IF lookup[id] # None
                         THEN legacy_last.hits + 1 ELSE legacy_last.hits)
                EXCEPT !.res = IF r.panic THEN "Panic" ELSE "Ok"]
        /\ legacy_ops' = legacy_ops + 1

LegacyNext ==
    /\ legacy_ops < MaxPoolOps
    /\ legacy_last.res = "Ok"
    /\ \E id \in PageIds : LegacyGetPage(id)
    /\ UNCHANGED <<page_vars, ref_vars, unit_vars, disk_vars, pool_vars, cache_vars>>

LegacyStartAll ==
    PageInit /\ RefInit /\ UnitIdle /\ DiskIdle /\ PoolIdle /\ CacheIdle /\ LegacyInit

LegacySpec == LegacyStartAll /\ [][LegacyNext]_vars

LegacyResident == {p \in PageIds : lookup[p] # None}

LegacyResidentNext == {p \in PageIds : lookup'[p] # None}

\* the resident page whose latest get_page is the oldest
LegacyLeastRecentlyUsed ==
    Head(SelectSeq(legacy_recency, LAMBDA p : lookup[p] # None))

LegacyGot ==
    /\ legacy_ops' = legacy_ops + 1
    /\ legacy_last'.op = "get_page"
    /\ legacy_last'.res = "Ok"

\* C24: in the pager-backed pool a get_page that misses while all
\* SLOT_COUNT frames are occupied removes from the lookup the page whose
\* latest get_page is the oldest, and no other; a get_page of a resident
\* page reads nothing from the pager and only moves its frame to the most
\* recently used place.
C24_LegacyEvictsLru ==
    [][/\ (LegacyGot /\ ~legacy_last'.hit /\ vacant_frames = <<>>)
            => /\ LegacyResident \ LegacyResidentNext
                    = {LegacyLeastRecentlyUsed}
               /\ legacy_last'.evicted = Some(LegacyLeastRecentlyUsed)
       /\ (LegacyGot /\ legacy_last'.hit)
            => /\ legacy_last'.reads = 0
               /\ legacy_last'.writes = 0
               /\ UNCHANGED <<frames, frame_metadata, lookup, vacant_frames,
                              pager>>
               /\ Head(lru_frames') = lookup[legacy_last'.page_id[1]][1]
               /\ Without(lru_frames', Head(lru_frames'))
                    = Without(lru_frames, Head(lru_frames'))
      ]_vars

\* a miss on a full pool has evicted a page after a hit had changed the
\* order of the frames
C24_Witness ==
    /\ legacy_last.op = "get_page"
    /\ legacy_last.res = "Ok"
    /\ legacy_last.evicted # None
    /\ legacy_last.hits > 0
    /\ Len(lru_frames) = SLOT_COUNT

(***************************************************************************)
(* Part 7: cmp_le_bytes (src/store/btree_kv/helpers/byte_ordering.rs) on   *)
(* its own, over every triple of byte sequences of at most MaxKeyLen       *)
(* bytes drawn from OrderBytes.                                            *)
(***************************************************************************)
OrderBytes == {0, 1, 255}

RECURSIVE ByteSeqs(_)
ByteSeqs(n) ==
    IF n = 0 THEN {<<>>}
    ELSE ByteSeqs(n - 1) \cup
         {Append(q, x) : q \in {t \in ByteSeqs(n - 1) : Len(t) = n - 1},
                         x \in OrderBytes}

OrderInit ==
    /\ cmp_in \in [a : ByteSeqs(MaxKeyLen), b : ByteSeqs(MaxKeyLen),
                    c : ByteSeqs(MaxKeyLen)]
    /\ cmp_out = None

\* cmp_le_bytes called on each pair of the three sequences
OrderCompare ==
    /\ cmp_out = None
    /\ cmp_out' = Some([ab |-> cmp_le_bytes(cmp_in.a, cmp_in.b),
                        ba |-> cmp_le_bytes(cmp_in.b, cmp_in.a),
                        bc |-> cmp_le_bytes(cmp_in.b, cmp_in.c),
                        ac |-> cmp_le_bytes(cmp_in.a, cmp_in.c)])
    /\ UNCHANGED cmp_in

OrderNext ==
    OrderCompare /\ UNCHANGED <<page_vars, ref_vars, disk_vars, pool_vars,
                                cache_vars, legacy_vars, frame_vars>>

OrderStart ==
    PageInit /\ RefInit /\ DiskIdle /\ PoolIdle /\ CacheIdle /\ LegacyIdle
        /\ OrderInit /\ FrameStart

OrderSpec == OrderStart /\ [][OrderNext]_vars

\* a byte sequence read as a little-endian unsigned integer
RECURSIVE le_value(_)
le_value(q) ==
    IF q = <<>> THEN 0 ELSE q[1] + 256 * le_value(Tail(q))

\* the ordering of two integers, as Ord::cmp returns it
int_cmp(x, y) == IF x < y THEN "Less" ELSE IF x > y THEN "Greater" ELSE "Equal"

\* Ordering::reverse
reverse(ord) ==
    IF ord = "Less" THEN "Greater" ELSE IF ord = "Greater" THEN "Less" ELSE "Equal"

(***************************************************************************)
(* C34.  cmp_le_bytes(a, b) is the numeric ordering of a and b read as     *)
(* little-endian unsigned integers, the shorter one zero-extended, for all *)
(* byte sequences a and b; so swapping the arguments reverses the result   *)
(* and the ordering is transitive.  It is not the lexicographic order      *)
(* (the witness is a pair on which the two differ).                        *)
(***************************************************************************)
C34_CmpIsLittleEndianNumeric ==
    cmp_out # None =>
        /\ cmp_out[1].ab = int_cmp(le_value(cmp_in.a), le_value(cmp_in.b))
        /\ cmp_out[1].bc = int_cmp(le_value(cmp_in.b), le_value(cmp_in.c))
        /\ cmp_out[1].ba = reverse(cmp_out[1].ab)
        /\ (cmp_out[1].ab = "Less" /\ cmp_out[1].bc \in {"Less", "Equal"})
              => cmp_out[1].ac = "Less"
        /\ (cmp_out[1].ab = "Equal" /\ cmp_out[1].bc = "Less")
              => cmp_out[1].ac = "Less"
        /\ (cmp_out[1].ab = "Equal" /\ cmp_out[1].bc = "Equal")
              => cmp_out[1].ac = "Equal"

\* two sequences of different lengths and leading bytes that cmp_le_bytes
\* orders by their high bytes, against their lexicographic order
C34_Witness ==
    /\ cmp_out # None
    /\ Len(cmp_in.a) # Len(cmp_in.b)
    /\ cmp_out[1].ab = "Less"
    /\ cmp_lexicographic(cmp_in.a, cmp_in.b) = "Greater"
    /\ cmp_out[1].bc = "Less"

(***************************************************************************)
(* Part 8: the FrameHandler (src/store/btree_kv/frame.rs) on its own, with *)
(* the Arc buffers it shares.  A buffer behind an Arc is reached by its    *)
(* address; a clone of the Arc is the same address.                        *)
(***************************************************************************)

\* Arc::from(data) / Arc::new(data): a fresh buffer holding data
arc_from(heap, data) == [heap |-> Append(heap, data), ptr |-> Len(heap) + 1]

\* FrameHandler::get_data: the bytes behind frame.data
handler_get_data(heap, fh) == heap[fh.frame.data]

\* FrameHandler::is_dirty
handler_is_dirty(fh) == fh.frame_metadata.is_dirty

\* the new bytes written into the buffer the frame already has
handler_set_data_in_place(heap, fh, data) ==
    [heap |-> [heap EXCEPT ![fh.frame.data] = data],
     fh |-> [fh EXCEPT !.frame_metadata.is_dirty = TRUE]]

\* FrameHandler::set_data: frame.data becomes a fresh Arc of the new bytes
\* and the metadata is marked dirty
handler_set_data(heap, fh, data) ==
    [heap |-> arc_from(heap, data).heap,
     fh |-> [fh EXCEPT !.frame.data = arc_from(heap, data).ptr,
                       !.frame_metadata.is_dirty = TRUE]]

\* frame_handler.set_data(data)
FrameSetData(data) ==
    \E r \in {handler_set_data(arcs, frame_handler, data)} :
        /\ arcs' = r.heap
        /\ frame_handler' = r.fh
        /\ frame_last' = [op |-> "set_data", data |-> data]
        /\ UNCHANGED snapshots

\* a holder of the frame clones frame.data (Arc::clone) and reads it
FrameSnapshot ==
    /\ snapshots' = snapshots \cup
          {[ptr |-> frame_handler.frame.data,
            bytes |-> handler_get_data(arcs, frame_handler)]}
    /\ frame_last' = [op |-> "clone", data |-> <<>>]
    /\ UNCHANGED <<arcs, frame_handler>>

FrameCount == frame_ops' = frame_ops + 1

FrameNext ==
    \/ frame_ops < MaxFrameOps
          /\ \E data \in PageImages \cup {ZeroPage} : FrameSetData(data)
          /\ FrameCount
          /\ UNCHANGED <<page_vars, ref_vars, disk_vars, pool_vars,
                         cache_vars, legacy_vars, order_vars>>
    \/ frame_ops < MaxFrameOps
          /\ FrameSnapshot
          /\ FrameCount
          /\ UNCHANGED <<page_vars, ref_vars, disk_vars, pool_vars,
                         cache_vars, legacy_vars, order_vars>>

FrameSpec == Init /\ [][FrameNext]_vars

(***************************************************************************)
(* C40.  Copy-on-write frames: set_data(new_bytes) makes get_data()        *)
(* return new_bytes and sets the dirty flag, and it replaces the buffer of *)
(* the frame: a shared snapshot of the frame's data taken before the call  *)
(* still reads the old bytes in full afterwards, never a mix of old and    *)
(* new.                                                                    *)
(***************************************************************************)
C40_CopyOnWriteFrames ==
    /\ frame_last.op = "set_data" =>
          /\ handler_get_data(arcs, frame_handler) = frame_last.data
          /\ handler_is_dirty(frame_handler)
    /\ \A snap \in snapshots : arcs[snap.ptr] = snap.bytes

\* set_data has put other bytes in a frame of which a snapshot was taken
C40_Witness ==
    /\ frame_last.op = "set_data"
    /\ \E snap \in snapshots :
          /\ snap.bytes # handler_get_data(arcs, frame_handler)
          /\ snap.bytes # ZeroPage
          /\ snap.ptr # frame_handler.frame.data

====
